---- MODULE Spec2Model ----
(***************************************************************************)
(* Zone playback engine of n-compasstv (package vlc) with its two playback *)
(* backends, the playlist update path and the run command's shutdown path. *)
(*                                                                         *)
(* Threads of the model:                                                   *)
(*   - one goroutine per zone started by Engine.Play, executing            *)
(*     ZonePlayer.run and, inside it, Backend.PlayAll;                     *)
(*   - one watcher goroutine per zone whose callback calls                 *)
(*     Engine.SetPlaylist (cmd/player runCmd);                             *)
(*   - the main goroutine of runCmd: initial SetPlaylist, Play, then       *)
(*     Engine.Stop and the deferred Engine.Release;                        *)
(*   - per zone, the subprocess backend's helper goroutine (cmd.Wait) and  *)
(*     the child process itself.                                           *)
(***************************************************************************)
EXTENDS Naturals, Sequences, FiniteSets, TLC

VARIABLES
    build,      \* "dev" (engine_dev.go) or "prod" (engine_prod.go): build tag
    zones,      \* Engine.zones: the zone IDs in template order
    files,      \* ZonePlayer.files, per zone
    running,    \* ZonePlayer.running, per zone
    stopCh,     \* ZonePlayer.stopCh, per zone: TRUE iff closed
    restartCh,  \* ZonePlayer.restartCh, per zone: number of buffered values (cap 1)
    backend,    \* per zone, the backend object and the child process it drives
    pc,         \* per goroutine started by Play: position in run / PlayAll
    gz,         \* per goroutine started by Play: the ZonePlayer it runs
    lfiles,     \* per goroutine: run's local copy `files`
    perr,       \* per goroutine: run's local `err` (result of the last PlayAll)
    upd,        \* per watcher goroutine: position in SetPlaylist / updatePlaylist
    main,       \* the main goroutine of runCmd
    updLeft,    \* watcher callbacks still allowed in this run
    crashLeft,  \* backend failures (child exit, start or setup error) still allowed
    errCh,      \* the channel made by Play: the results buffered in it, in order
    fault,      \* a goroutine has panicked (close of a closed channel)
    newLeft,    \* NewEngine: the template zones not yet constructed
    newErr,     \* NewEngine: 0, or k when the k-th zone's backend failed
    wdir,       \* Watcher.dir: the directory path handed to NewWatcher
    dir,        \* the file system: the entries now present in that directory
    wfiles,     \* Watcher.files
    wpc,        \* the watcher: "off", "none" (not constructed), "made",
                \* "loop" (Start's select), "cb" (about to call onChange)
    watched,    \* the OS watch on the directory is registered (watcher.Add)
    wev,        \* watcher.Events: the file system events not yet received
    wcb,        \* onChange: number of invocations and the last argument
    chgLeft,    \* directory changes still allowed in this run
    readable,   \* the file system: os.ReadDir on the directory succeeds
    wstopCh,    \* Watcher.stopCh: TRUE iff closed
    wfault,     \* a call of Watcher.Stop has panicked
    stopLeft,   \* calls of Watcher.Stop still allowed in this run
    whist,      \* history of the watcher: events = create, remove and rename
                \* events queued by the OS watch; recv = events of any kind
                \* received by the loop; scans = rescans made by the
                \* loop; ok = the last scan read the directory; at = the
                \* directory content that scan met
    mcall,      \* package media: two file names handed to Detect and
                \* IsSupported, and the results
    gcall,      \* a subprocess backend: the zone and screen handed to Init, and
                \* the geometry PlayAll gives the player window
    vlcInitOnce,\* engine_prod.go: the state of the sync.Once
    vlcInitErr, \* engine_prod.go: the package variable vlcInitErr
    ipc,        \* per caller of prodBackend.Init: its position in the call
    ihist,      \* history: first = the first caller to reach the sync.Once,
                \* inits = the calls of libvlc.Init, in order, each with its
                \* caller, the caller's zone and the flags
    stopHit,    \* history: Backend.Stop() ran on the zone's backend while its
                \* PlayAll was blocked in its wait, and that call has not returned
    chg,        \* history, per zone: on = the last SetPlaylist stored its snapshot
                \* while running was set and no backend failure followed;
                \* starts = PlayAll calls begun since (counted up to 2)
    obs,        \* history of the single zone's calls, kept by the
                \* specifications that start with it switched on (see Observed)
    zmu,        \* ZonePlayer.mu: "free" or the thread that holds it
    bmu,        \* the backend's mu: "free" or the thread that holds it
    tpc         \* per thread of the lock-level specification: its position

vars == <<build, zones, files, running, stopCh, restartCh, backend, pc, gz,
          lfiles, perr, upd, main, updLeft, crashLeft, errCh, fault, newLeft,
          newErr, wdir, dir, wfiles, wpc, watched, wev, wcb, chgLeft,
          readable, wstopCh, wfault, stopLeft, whist, mcall, gcall,
          vlcInitOnce, vlcInitErr, ipc, ihist, stopHit, chg, obs, zmu, bmu,
          tpc>>

\* the mutexes and the threads of the lock-level specification
lockVars == <<zmu, bmu, tpc>>

\* the variables of package media, of the window geometry and of the
\* toolkit initialisation
libVars == <<mcall, gcall, vlcInitOnce, vlcInitErr, ipc, ihist>>

\* the variables of the engine and of the run command
playerVars == <<libVars, lockVars, obs, build, zones, files, running, stopCh, restartCh, backend, pc,
                gz, lfiles, perr, upd, main, updLeft, crashLeft, errCh, fault,
                newLeft, newErr, stopHit, chg>>

\* the variables of the directory watcher
watcherVars == <<libVars, wdir, dir, wfiles, wpc, watched, wev, wcb, chgLeft,
                 readable, wstopCh, wfault, stopLeft, whist>>

-----------------------------------------------------------------------------
(* Bounds of the model *)

MaxUpdates == 2
MaxCrashes == 1
\* watcher callbacks plus backend failures for the two-zone template
MaxEventsZones == 1
\* additions and removals of files in the watched directory
MaxDirChanges == 2
\* calls of Watcher.Stop
MaxStops == 2
\* prodBackend objects whose Init is called, and Init calls per object
MaxBackends == 3
MaxInitCalls == 2

(* Inputs *)

\* template.Fullscreen and template.MainWithFooter: the zone IDs
Fullscreen == <<"main">>
MainWithFooter == <<"main", "footer">>

\* playlist snapshots handed to SetPlaylist (sorted lists of supported files)
Playlists == {<< >>, <<"a.mp4">>, <<"a.mp4", "b.png">>}

Builds == {"dev", "prod"}

\* a zone ID of template.MainWithSidebar, which neither template above has
UnknownZone == "sidebar"

Z == DOMAIN zones

-----------------------------------------------------------------------------
(* Strings. A string is the sequence of its bytes; file names and paths are  *)
(* compared, joined and lower-cased byte by byte as the Go library does.     *)

\* the bytes of "/" and "."
Slash == 47
Dot == 46

\* strings.ToLower on ASCII text: 'A'..'Z' become 'a'..'z'
ToLower(str) == [i \in DOMAIN str |-> IF str[i] >= 65 /\ str[i] <= 90
                                        THEN str[i] + 32 ELSE str[i]]

\* the order of Go strings (sort.Strings): byte-wise lexicographic
LexLess(a, b) ==
    \E k \in 1..(Len(b)) :
        /\ \A i \in 1..(k - 1) : i <= Len(a) /\ a[i] = b[i]
        /\ k > Len(a) \/ a[k] < b[k]

\* filepath.Ext: the suffix from the last dot of the last path element on,
\* empty when that element has no dot
Ext(path) ==
    LET dots == {i \in DOMAIN path :
                    /\ path[i] = Dot
                    /\ \A j \in i..Len(path) : path[j] # Slash}
    IN  IF dots = {} THEN << >>
        ELSE LET d == CHOOSE i \in dots : \A j \in dots : j <= i
             IN  SubSeq(path, d, Len(path))

\* filepath.Join(dir, name) for a clean directory path and a plain name
Join(d, name) == d \o <<Slash>> \o name

\* filepath.IsAbs on a Unix path
IsAbs(path) == path # << >> /\ path[1] = Slash

-----------------------------------------------------------------------------
(* Package media *)

\* .mp4, .mkv, .avi, .mov, .webm, .ts, .m4v, .hevc, .flv, .wmv
videoExts ==
    { <<46, 109, 112, 52>>,
      <<46, 109, 107, 118>>,
      <<46, 97, 118, 105>>,
      <<46, 109, 111, 118>>,
      <<46, 119, 101, 98, 109>>,
      <<46, 116, 115>>,
      <<46, 109, 52, 118>>,
      <<46, 104, 101, 118, 99>>,
      <<46, 102, 108, 118>>,
      <<46, 119, 109, 118>> }

\* .jpg, .jpeg, .png, .bmp, .gif, .webp, .tiff, .svg
imageExts ==
    { <<46, 106, 112, 103>>,
      <<46, 106, 112, 101, 103>>,
      <<46, 112, 110, 103>>,
      <<46, 98, 109, 112>>,
      <<46, 103, 105, 102>>,
      <<46, 119, 101, 98, 112>>,
      <<46, 116, 105, 102, 102>>,
      <<46, 115, 118, 103>> }

\* media.Detect
DetectCaseSensitive(path) ==
    LET ext == Ext(path) IN
        IF ext \in videoExts THEN "Video"
        ELSE IF ext \in imageExts THEN "Image"
        ELSE "Unknown"

Detect(path) ==
    LET ext == ToLower(Ext(path)) IN
        IF ext \in videoExts THEN "Video"
        ELSE IF ext \in imageExts THEN "Image"
        ELSE "Unknown"

\* media.IsSupported
IsSupported(path) == Detect(path) # "Unknown"

-----------------------------------------------------------------------------
(* Package playlist: the directory watcher *)

\* directory entries that may exist in a watched directory:
\* c.png, a.mp4, B.MKV, n.txt, d.avi (a directory)
Entries ==
    << [name |-> <<99, 46, 112, 110, 103>>, isDir |-> FALSE],
       [name |-> <<97, 46, 109, 112, 52>>, isDir |-> FALSE],
       [name |-> <<66, 46, 77, 75, 86>>, isDir |-> FALSE],
       [name |-> <<110, 46, 116, 120, 116>>, isDir |-> FALSE],
       [name |-> <<100, 46, 97, 118, 105>>, isDir |-> TRUE] >>

\* the directory handed to NewWatcher: "/p" or the relative path "p"
WatchDirs == {<<47, 112>>, <<112>>}

\* insertion of string x into the sorted sequence srt
RECURSIVE InsertSorted(_, _)
InsertSorted(srt, x) ==
    IF srt = << >> THEN <<x>>
    ELSE IF LexLess(x, Head(srt)) THEN <<x>> \o srt
    ELSE <<Head(srt)>> \o InsertSorted(Tail(srt), x)

\* sort.Strings
RECURSIVE SortStrings(_)
SortStrings(strs) ==
    IF strs = << >> THEN << >>
    ELSE InsertSorted(SortStrings(Tail(strs)), Head(strs))

\* os.ReadDir: the entries present, sorted by file name
ReadDir(present) ==
    LET names == SortStrings(
            [i \in 1..Cardinality(present) |->
                Entries[CHOOSE e \in present :
                    Cardinality({f \in present : f < e}) = i - 1].name])
    IN  [i \in DOMAIN names |->
            Entries[CHOOSE e \in present : Entries[e].name = names[i]]]

\* Watcher.scan's test of one entry: directories and unsupported names are
\* skipped
scanKeepsDirs(entry) == IsSupported(entry.name)

scanKeeps(entry) == ~entry.isDir /\ IsSupported(entry.name)

\* Watcher.scan's loop over the entries, in order
RECURSIVE scanCollect(_, _)
scanCollect(d, entries) ==
    IF entries = << >> THEN << >>
    ELSE IF scanKeeps(Head(entries))
         THEN <<Join(d, Head(entries).name)>> \o scanCollect(d, Tail(entries))
         ELSE scanCollect(d, Tail(entries))

\* Watcher.scan on a readable directory: the new value of w.files
scan(d, present) == SortStrings(scanCollect(d, ReadDir(present)))

\* scan tabulated over the directories and contents of the model
scanOf ==
    {[d |-> d, present |-> present, files |-> scan(d, present)] :
        d \in WatchDirs, present \in SUBSET (DOMAIN Entries)}

\* Watcher.scan: w.files after the call; when os.ReadDir fails the error is
\* logged and scan returns before it assigns w.files
scanFiles(old, d, present, ok) ==
    IF ok
    THEN (CHOOSE t \in scanOf : t.d = d /\ t.present = present).files
    ELSE old

-----------------------------------------------------------------------------
(* Backends *)

\* A fresh backend after newBackend() and Init():
\*   cmd      devBackend.cmd: "nil", "new" (exec.Command made, Process nil),
\*            "proc" (started, Process set)
\*   proc     the child process of the latest PlayAll: "none", "running", "dead"
\*   done     the helper goroutine has delivered cmd.Wait() on doneCh
\*   stopped  prodBackend.stopped is closed
\*   released Release() has been invoked on the backend
NewBackend ==
    [cmd |-> "nil", proc |-> "none", done |-> FALSE, stopped |-> FALSE,
     released |-> FALSE]

\* devBackend.kill
devKill(b) ==
    IF b.cmd = "proc"
    THEN [b EXCEPT !.cmd = "nil",
                   !.proc = IF @ = "running" THEN "dead" ELSE @]
    ELSE b

\* prodBackend.Stop: closes b.stopped unless it is closed already
prodStopNoClose(b) == b

prodStop(b) == [b EXCEPT !.stopped = TRUE]

\* prodBackend.Stop: close(b.stopped) runs only in the select's default case
prodStopClosesAlways(b) == TRUE

prodStopCloses(b) == ~b.stopped

\* Go: closing a channel that is already closed panics
closePanics(closes, closed) == closes /\ closed

\* Backend.Stop of the selected build
BackendStop(b) == IF build = "dev" THEN devKill(b) ELSE prodStop(b)

\* prodBackend.Release: the media list and the list player are released only
\* while the backend still holds them (both are set to nil afterwards)
releaseFreesAlways(b) == TRUE

releaseFrees(b) == ~b.released

\* releasing a toolkit handle that was released before is a fault
doubleRelease(frees, released) == frees /\ released

\* Release() after its Stop()/kill() part: the handles are gone
releaseHandles(b) == [b EXCEPT !.released = TRUE]

\* Backend.Release of the selected build: devBackend.Release is kill();
\* prodBackend.Release is Stop() and then the release of its handles
BackendRelease(b) == releaseHandles(BackendStop(b))

\* devBackend.PlayAll: doneCh is made with room for one value
doneChUnbuffered == 0

doneChCap == 1

\* PlayAll's select: both of its cases return nil
selectReturnErr == "err"

selectReturn == "nil"

\* some PlayAll call on zone z's backend is blocked in its select
Blocked(z) == \E g \in DOMAIN pc : gz[g] = z /\ pc[g] = "select"

\* the goroutines with a PlayAll call in flight on zone z's backend
InFlight(z) == {g \in DOMAIN pc : gz[g] = z /\ pc[g] \in {"start", "select"}}

-----------------------------------------------------------------------------
(* Engine *)

\* Engine.SetPlaylist's lookup: index of the first zone with this ID, 0 if none
FindZoneFirst(zs, zoneID) == IF zs = << >> THEN 0 ELSE 1

FindZoneLast(zs, zoneID) ==
    IF \E i \in DOMAIN zs : zs[i] = zoneID
    THEN CHOOSE i \in DOMAIN zs : zs[i] = zoneID
    ELSE Len(zs)

FindZone(zs, zoneID) ==
    IF \E i \in DOMAIN zs : zs[i] = zoneID
    THEN CHOOSE i \in DOMAIN zs :
            zs[i] = zoneID /\ \A j \in DOMAIN zs : zs[j] = zoneID => i <= j
    ELSE 0

\* Engine.Play: the ZonePlayer run by the goroutine started for index i
\* (the loop value is passed as the closure's argument)
PlayTargetCaptured(i) == Len(zones)

PlayTarget(i) == i

\* ZonePlayer.stop, first step: close stopCh unless already closed
stopCloseInverted(closed) == closed

stopClose(closed) == TRUE

\* ZonePlayer.stop: close(zp.stopCh) runs only in the select's default case
stopClosesAlways(closed) == TRUE

stopCloses(closed) == ~closed

\* ZonePlayer.run, top of the loop: the select takes the stopCh case iff the
\* channel is closed, else its default case
checkStopNever(closed) == FALSE

checkStop(closed) == closed

\* ZonePlayer.run: files := make([]string, len(zp.files)); copy(files, zp.files)
copyFilesShort(fs) == [i \in 1..(IF Len(fs) = 0 THEN 0 ELSE Len(fs) - 1) |-> fs[i]]

copyFiles(fs) == [i \in 1..Len(fs) |-> fs[i]]

\* NewEngine: restartCh is made with room for one value
restartChCap == 1

\* updatePlaylist's send on restartCh: the value is queued when there is
\* room, else the select's default case drops it
restartSendQueues(n) == n + 1

restartSend(n) == IF n < restartChCap THEN n + 1 ELSE n

\* Engine.Play: capacity of the result channel, make(chan error, len(e.zones))
errChUnbuffered(n) == 0

errChCap(n) == n

\* ZonePlayer.run's empty-playlist select when the 2 s timer fires: continue
waitTimeoutReturn == "done"

waitTimeoutStay == "wait"

waitTimeout == "check"

\* ZonePlayer.run's post-playback select with neither signal ready
postDefaultReturn == "done"

postDefault == "sleep"

-----------------------------------------------------------------------------
(* Parts of the program that a specification leaves at rest *)

\* no call of media.Detect
NoMedia == mcall = [st |-> "none"]

\* no subprocess backend builds its arguments
NoGeom == gcall = [st |-> "none"]

\* no call of prodBackend.Init
NoInit ==
    /\ vlcInitOnce = "new"
    /\ vlcInitErr = "nil"
    /\ ipc = << >>
    /\ ihist = [first |-> 0, inits |-> << >>]

AtRest == NoMedia /\ NoGeom /\ NoInit

\* no history of the zone's calls is kept
ObsOff == [on |-> FALSE]

Unobserved == obs = ObsOff

\* the lock-level threads do not exist
NoLocks ==
    /\ zmu = "free"
    /\ bmu = "free"
    /\ tpc = << >>

-----------------------------------------------------------------------------
(* State after NewEngine: one ZonePlayer per template zone, nothing started *)

Construct(tmpl, nUpdates, nCrashes) ==
    /\ build \in Builds
    /\ zones = tmpl
    /\ files = [z \in DOMAIN zones |-> << >>]
    /\ running = [z \in DOMAIN zones |-> FALSE]
    /\ stopCh = [z \in DOMAIN zones |-> FALSE]
    /\ restartCh = [z \in DOMAIN zones |-> 0]
    /\ backend = [z \in DOMAIN zones |-> NewBackend]
    /\ pc = [g \in DOMAIN zones |-> "idle"]
    /\ gz = [g \in DOMAIN zones |-> g]
    /\ lfiles = [g \in DOMAIN zones |-> << >>]
    /\ perr = [g \in DOMAIN zones |-> "none"]
    /\ upd = [w \in DOMAIN zones |-> [pc |-> "idle", zp |-> 0]]
    /\ main = [ph |-> "setup", i |-> 1, st |-> "none"]
    /\ updLeft = nUpdates
    /\ crashLeft = nCrashes
    /\ errCh = << >>
    /\ fault = FALSE
    /\ newLeft = << >>
    /\ newErr = 0
    /\ stopHit = [z \in DOMAIN zones |-> FALSE]
    /\ chg = [z \in DOMAIN zones |-> [on |-> FALSE, starts |-> 0]]

\* the watcher is left out: its callbacks are the SetPlaylist calls of the
\* model, with any snapshot
NoWatcher ==
    /\ wdir = << >>
    /\ dir = {}
    /\ wfiles = << >>
    /\ wpc = "off"
    /\ watched = FALSE
    /\ wev = << >>
    /\ wcb = [n |-> 0, arg |-> << >>]
    /\ chgLeft = 0
    /\ readable = TRUE
    /\ wstopCh = FALSE
    /\ wfault = FALSE
    /\ stopLeft = 0
    /\ whist = [events |-> 0, recv |-> 0, scans |-> 0, ok |-> TRUE, at |-> {}]

\* the default single-zone template
Init ==
    /\ Construct(Fullscreen, MaxUpdates, MaxCrashes)
    /\ NoWatcher /\ AtRest /\ Unobserved /\ NoLocks

\* the two-zone template
InitZones ==
    \E u \in 0..MaxEventsZones :
        /\ Construct(MainWithFooter, u, MaxEventsZones - u)
        /\ NoWatcher /\ AtRest /\ Unobserved /\ NoLocks

-----------------------------------------------------------------------------
(* ZonePlayer.run, one step per goroutine g started by Play *)

\* zone z's loop has finished a ZonePlayer.stop() issued by Engine.Stop
StopReturned(z) ==
    \/ main.ph = "stop" /\ main.i > z
    \/ main.ph \in {"release", "exit"}

\* History of the calls on the single zone of template.Fullscreen:
\*   sends    restart signals that updatePlaylist has offered to restartCh
\*            since the loop last received one (counted up to 2)
\*   stored   the snapshots stored in zp.files by SetPlaylist, in order
\*   copied   the position in stored of the snapshot the loop copied last
\*   played   the position in stored of the snapshot handed to the last PlayAll
\*   prev     the same for the PlayAll call before the last (0 if none)
\*   late     PlayAll calls begun after ZonePlayer.stop() returned (up to 2)
\*   retStop  the last PlayAll returned while stopCh was closed
Observed ==
    obs = [on |-> TRUE, sends |-> 0, stored |-> << >>, copied |-> 0,
           played |-> 0, prev |-> 0, late |-> 0, retStop |-> FALSE]

\* obs becomes new in the specifications that keep the history
observe(new) == obs' = IF obs.on THEN new ELSE obs

\* history: a snapshot is stored in zp.files
obsStore(fl) == observe([obs EXCEPT !.stored = Append(@, fl)])

\* history: PlayAll returns in goroutine g
obsReturn(g) == observe([obs EXCEPT !.retStop = stopCh[gz[g]]])

\* history: the loop receives from restartCh
obsReceive == observe([obs EXCEPT !.sends = 0])

\* history: goroutine g begins a PlayAll call, which returns at once
\* (returns) or goes on
obsBegin(g, returns) ==
    observe([obs EXCEPT
        !.played = obs.copied,
        !.prev = obs.played,
        !.late = IF StopReturned(gz[g]) /\ @ < 2 THEN @ + 1 ELSE @,
        !.retStop = IF returns THEN stopCh[gz[g]] ELSE @])

\* history: a PlayAll call begins on zone z
noteStart(z) ==
    chg' = [chg EXCEPT ![z].starts = IF chg[z].on /\ @ < 2 THEN @ + 1 ELSE @]

\* history: the backend of zone z failed on its own, or z is shut down
noteFailure(z) == chg' = [chg EXCEPT ![z] = [on |-> FALSE, starts |-> 0]]

engineVars == <<build, zones>>
newVars == <<newLeft, newErr>>
budgetVars == <<updLeft, crashLeft>>
callerVars == <<upd, main>>

\* top of the loop: the non-blocking test of stopCh
runCheck(g) ==
    /\ pc[g] = "check"
    /\ pc' = [pc EXCEPT ![g] = IF checkStop(stopCh[gz[g]]) THEN "done" ELSE "copy"]
    /\ lfiles' = [lfiles EXCEPT ![g] = IF checkStop(stopCh[gz[g]]) THEN << >> ELSE @]
    /\ UNCHANGED <<watcherVars, lockVars, obs, engineVars, newVars, errCh, fault, files, running, stopCh, restartCh, backend, gz,
                   perr, callerVars, budgetVars, stopHit, chg>>

\* the copy of zp.files under zp.mu, and the test for an empty copy
runCopy(g) ==
    /\ pc[g] = "copy"
    /\ lfiles' = [lfiles EXCEPT ![g] = copyFiles(files[gz[g]])]
    /\ pc' = [pc EXCEPT ![g] = IF Len(lfiles'[g]) = 0 THEN "wait" ELSE "setrun"]
    /\ observe([obs EXCEPT !.copied = Len(obs.stored)])
    /\ UNCHANGED <<watcherVars, lockVars, engineVars, newVars, errCh, fault, files, running, stopCh, restartCh, backend, gz,
                   perr, callerVars, budgetVars, stopHit, chg>>

\* the empty-playlist select on stopCh, restartCh and the 2 s timer
runWait(g) ==
    /\ pc[g] = "wait"
    /\ \/ /\ stopCh[gz[g]]
          /\ pc' = [pc EXCEPT ![g] = "done"]
          /\ UNCHANGED <<restartCh, obs>>
       \/ /\ restartCh[gz[g]] > 0
          /\ restartCh' = [restartCh EXCEPT ![gz[g]] = 0]
          /\ pc' = [pc EXCEPT ![g] = "check"]
          /\ obsReceive
       \/ /\ pc' = [pc EXCEPT ![g] = waitTimeout]
          /\ UNCHANGED <<restartCh, obs>>
    /\ UNCHANGED <<watcherVars, lockVars, engineVars, newVars, errCh, fault, files, running, stopCh, backend, gz, lfiles,
                   perr, callerVars, budgetVars, stopHit, chg>>

\* zp.running = true under zp.mu
runSetRunning(g) ==
    /\ pc[g] = "setrun"
    /\ running' = [running EXCEPT ![gz[g]] = TRUE]
    /\ pc' = [pc EXCEPT ![g] = "call"]
    /\ UNCHANGED <<watcherVars, lockVars, obs, engineVars, newVars, errCh, fault, files, stopCh, restartCh, backend, gz, lfiles,
                   perr, callerVars, budgetVars, stopHit, chg>>

\* zp.running = false under zp.mu, after PlayAll has returned; err is only
\* logged
runClear(g) ==
    /\ pc[g] = "clear"
    /\ running' = [running EXCEPT ![gz[g]] = FALSE]
    /\ pc' = [pc EXCEPT ![g] = "post"]
    /\ perr' = [perr EXCEPT ![g] = "none"]
    /\ UNCHANGED <<watcherVars, lockVars, obs, engineVars, newVars, errCh, fault, files, stopCh, restartCh, backend, gz, lfiles,
                   callerVars, budgetVars, stopHit, chg>>

\* the post-playback select: stopCh, restartCh, default
runPost(g) ==
    /\ pc[g] = "post"
    /\ \/ /\ stopCh[gz[g]]
          /\ pc' = [pc EXCEPT ![g] = "done"]
          /\ UNCHANGED <<restartCh, obs>>
       \/ /\ restartCh[gz[g]] > 0
          /\ restartCh' = [restartCh EXCEPT ![gz[g]] = 0]
          /\ pc' = [pc EXCEPT ![g] = "check"]
          /\ obsReceive
       \/ /\ ~stopCh[gz[g]]
          /\ restartCh[gz[g]] = 0
          /\ pc' = [pc EXCEPT ![g] = postDefault]
          /\ UNCHANGED <<restartCh, obs>>
    /\ lfiles' = [lfiles EXCEPT ![g] = IF pc'[g] = "done" THEN << >> ELSE @]
    /\ UNCHANGED <<watcherVars, lockVars, engineVars, newVars, errCh, fault, files, running, stopCh, backend, gz, perr,
                   callerVars, budgetVars, stopHit, chg>>

\* time.Sleep(500 ms), then continue
runSleep(g) ==
    /\ pc[g] = "sleep"
    /\ pc' = [pc EXCEPT ![g] = "check"]
    /\ UNCHANGED <<watcherVars, lockVars, obs, engineVars, newVars, errCh, fault, files, running, stopCh, restartCh, backend, gz,
                   lfiles, perr, callerVars, budgetVars, stopHit, chg>>

\* the goroutine of Play: errCh <- z.run(); run returns nil at each of its
\* return statements; the send blocks while the buffer is full
runDeliver(g) ==
    /\ pc[g] = "done"
    /\ Len(errCh) < errChCap(Len(zones))
    /\ errCh' = Append(errCh, "nil")
    /\ pc' = [pc EXCEPT ![g] = "sent"]
    /\ UNCHANGED <<watcherVars, lockVars, obs, engineVars, newVars, fault, files, running, stopCh,
                   restartCh, backend, gz, lfiles, perr, callerVars,
                   budgetVars, stopHit, chg>>

-----------------------------------------------------------------------------
(* devBackend.PlayAll, called by goroutine g *)

\* entry: empty list -> error; else b.cmd = exec.Command(...) under b.mu
devPlayAllBegin(g) ==
    /\ build = "dev"
    /\ pc[g] = "call"
    /\ IF Len(lfiles[g]) = 0
       THEN /\ perr' = [perr EXCEPT ![g] = "err"]
            /\ pc' = [pc EXCEPT ![g] = "clear"]
            /\ UNCHANGED backend
            /\ obsBegin(g, TRUE)
       ELSE /\ backend' = [backend EXCEPT ![gz[g]] =
                              [@ EXCEPT !.cmd = "new", !.proc = "none",
                                        !.done = FALSE]]
            /\ pc' = [pc EXCEPT ![g] = "start"]
            /\ UNCHANGED perr
            /\ obsBegin(g, FALSE)
    /\ noteStart(gz[g])
    /\ UNCHANGED <<watcherVars, lockVars, engineVars, newVars, errCh, fault, files, running, stopCh, restartCh, gz, lfiles,
                   callerVars, budgetVars, stopHit>>

\* cmd.Start(): the child runs, or the start fails and PlayAll returns the error
devStart(g) ==
    /\ build = "dev"
    /\ pc[g] = "start"
    /\ \/ /\ backend' = [backend EXCEPT ![gz[g]] =
                            [@ EXCEPT !.proc = "running",
                                      !.cmd = IF @ = "new" THEN "proc" ELSE @]]
          /\ pc' = [pc EXCEPT ![g] = "select"]
          /\ UNCHANGED <<perr, crashLeft, chg, obs>>
       \/ /\ crashLeft > 0
          /\ crashLeft' = crashLeft - 1
          /\ perr' = [perr EXCEPT ![g] = "err"]
          /\ pc' = [pc EXCEPT ![g] = "clear"]
          /\ noteFailure(gz[g])
          /\ obsReturn(g)
          /\ UNCHANGED backend
    /\ UNCHANGED <<watcherVars, lockVars, engineVars, newVars, errCh, fault, files, running, stopCh, restartCh, gz, lfiles,
                   callerVars, updLeft, stopHit>>

\* the select on stopCh and doneCh; the stopCh case kills the child
devSelect(g) ==
    /\ build = "dev"
    /\ pc[g] = "select"
    /\ \/ /\ stopCh[gz[g]]
          /\ backend' = [backend EXCEPT ![gz[g]] = devKill(@)]
       \/ /\ backend[gz[g]].done
          /\ UNCHANGED backend
    /\ perr' = [perr EXCEPT ![g] = selectReturn]
    /\ pc' = [pc EXCEPT ![g] = "clear"]
    /\ stopHit' = [stopHit EXCEPT ![gz[g]] = FALSE]
    /\ obsReturn(g)
    /\ UNCHANGED <<watcherVars, lockVars, engineVars, newVars, errCh, fault, files, running, stopCh, restartCh, gz, lfiles,
                   callerVars, budgetVars, chg>>

\* the helper goroutine: doneCh <- cmd.Wait(); the send needs room in doneCh
\* or PlayAll receiving in its select
devWait(z) ==
    /\ build = "dev"
    /\ backend[z].proc = "dead"
    /\ ~backend[z].done
    /\ doneChCap > 0 \/ Blocked(z)
    /\ backend' = [backend EXCEPT ![z] = [@ EXCEPT !.done = TRUE]]
    /\ UNCHANGED <<watcherVars, lockVars, obs, engineVars, newVars, errCh, fault, files, running, stopCh, restartCh, pc, gz,
                   lfiles, perr, callerVars, budgetVars, stopHit, chg>>

\* the child process exits on its own
devExit(z) ==
    /\ build = "dev"
    /\ backend[z].proc = "running"
    /\ crashLeft > 0
    /\ crashLeft' = crashLeft - 1
    /\ backend' = [backend EXCEPT ![z] = [@ EXCEPT !.proc = "dead"]]
    /\ noteFailure(z)
    /\ UNCHANGED <<watcherVars, lockVars, obs, engineVars, newVars, errCh, fault, files, running, stopCh, restartCh, pc, gz,
                   lfiles, perr, callerVars, updLeft, stopHit>>

-----------------------------------------------------------------------------
(* prodBackend.PlayAll, called by goroutine g *)

\* entry and the section under b.mu: build the media list, Play(), make a
\* fresh b.stopped; any toolkit error returns it (a released backend has no
\* list player and the toolkit is shut down, so its setup fails)
prodPlayAllBegin(g) ==
    /\ build = "prod"
    /\ pc[g] = "call"
    /\ \/ /\ Len(lfiles[g]) = 0 \/ backend[gz[g]].released
          /\ perr' = [perr EXCEPT ![g] = "err"]
          /\ pc' = [pc EXCEPT ![g] = "clear"]
          /\ noteStart(gz[g])
          /\ obsBegin(g, TRUE)
          /\ UNCHANGED <<backend, crashLeft>>
       \/ /\ Len(lfiles[g]) > 0
          /\ ~backend[gz[g]].released
          /\ crashLeft > 0
          /\ crashLeft' = crashLeft - 1
          /\ perr' = [perr EXCEPT ![g] = "err"]
          /\ pc' = [pc EXCEPT ![g] = "clear"]
          /\ noteFailure(gz[g])
          /\ obsBegin(g, TRUE)
          /\ UNCHANGED backend
       \/ /\ Len(lfiles[g]) > 0
          /\ ~backend[gz[g]].released
          /\ backend' = [backend EXCEPT ![gz[g]] = [@ EXCEPT !.stopped = FALSE]]
          /\ pc' = [pc EXCEPT ![g] = "select"]
          /\ noteStart(gz[g])
          /\ obsBegin(g, FALSE)
          /\ UNCHANGED <<perr, crashLeft>>
    /\ UNCHANGED <<watcherVars, lockVars, engineVars, newVars, errCh, fault, files, running, stopCh, restartCh, gz, lfiles,
                   callerVars, updLeft, stopHit>>

\* the select on stopCh and b.stopped
prodSelect(g) ==
    /\ build = "prod"
    /\ pc[g] = "select"
    /\ stopCh[gz[g]] \/ backend[gz[g]].stopped
    /\ perr' = [perr EXCEPT ![g] = selectReturn]
    /\ pc' = [pc EXCEPT ![g] = "clear"]
    /\ stopHit' = [stopHit EXCEPT ![gz[g]] = FALSE]
    /\ obsReturn(g)
    /\ UNCHANGED <<watcherVars, lockVars, engineVars, newVars, errCh, fault, files, running, stopCh, restartCh, backend, gz,
                   lfiles, callerVars, budgetVars, chg>>

-----------------------------------------------------------------------------
(* Engine.SetPlaylist / ZonePlayer.updatePlaylist *)

loopVars == <<pc, gz, lfiles, perr>>

\* Backend.Stop() invoked on zone z's backend
applyStop(z) ==
    /\ backend' = [backend EXCEPT ![z] = BackendStop(@)]
    /\ stopHit' = [stopHit EXCEPT ![z] = @ \/ Blocked(z)]
    /\ fault' = (fault \/ (build = "prod" /\
                   closePanics(prodStopCloses(backend[z]), backend[z].stopped)))

\* updatePlaylist after its section under zp.mu: if wasRunning it goes on to
\* backend.Stop() and the restart signal, else it returns
updateNextAlways(wasRunning, t) == [pc |-> "stop", zp |-> t]

updateNext(wasRunning, t) ==
    IF wasRunning THEN [pc |-> "stop", zp |-> t] ELSE [pc |-> "idle", zp |-> 0]

\* caller w calls SetPlaylist(zoneID, fl): lookup, then updatePlaylist's
\* section under zp.mu, or the warning when no zone has this ID
setPlaylistCall(w, zoneID, fl) ==
    /\ upd[w].pc = "idle"
    /\ newLeft = << >> /\ newErr = 0
    /\ updLeft > 0
    /\ updLeft' = updLeft - 1
    /\ LET t == FindZone(zones, zoneID) IN
       IF t = 0
       THEN /\ upd' = [upd EXCEPT ![w] = [pc |-> "warn", zp |-> 0]]
            /\ UNCHANGED <<files, chg, obs>>
       ELSE /\ files' = [files EXCEPT ![t] = fl]
            /\ obsStore(fl)
            /\ upd' = [upd EXCEPT ![w] = updateNext(running[t], t)]
            /\ chg' = [chg EXCEPT ![t] = [on |-> running[t], starts |-> 0]]
    /\ UNCHANGED <<watcherVars, lockVars, engineVars, newVars, errCh, fault, running, stopCh, restartCh, backend, loopVars,
                   main, crashLeft, stopHit>>

\* the watcher callback of zone index w calls SetPlaylist(zones[w], fl)
setPlaylistBegin(w, fl) == setPlaylistCall(w, zones[w], fl)

\* a call SetPlaylist(UnknownZone, fl)
setPlaylistUnknown(w, fl) == setPlaylistCall(w, UnknownZone, fl)

\* the warning has been logged and SetPlaylist returns
setPlaylistWarn(w) ==
    /\ upd[w].pc = "warn"
    /\ upd' = [upd EXCEPT ![w] = [pc |-> "idle", zp |-> 0]]
    /\ UNCHANGED <<watcherVars, lockVars, obs, engineVars, newVars, errCh, fault, files, running, stopCh,
                   restartCh, backend, loopVars, main, budgetVars, stopHit, chg>>

\* if wasRunning: zp.backend.Stop()
setPlaylistStop(w) ==
    /\ upd[w].pc = "stop"
    /\ applyStop(upd[w].zp)
    /\ upd' = [upd EXCEPT ![w].pc = "send"]
    /\ UNCHANGED <<watcherVars, lockVars, obs, engineVars, newVars, errCh, files, running, stopCh, restartCh, loopVars,
                   main, budgetVars, chg>>

\* the non-blocking send on restartCh (dropped when one is pending)
setPlaylistSend(w) ==
    /\ upd[w].pc = "send"
    /\ restartCh' = [restartCh EXCEPT ![upd[w].zp] = restartSend(@)]
    /\ observe([obs EXCEPT !.sends = IF @ < 2 THEN @ + 1 ELSE @])
    /\ upd' = [upd EXCEPT ![w] = [pc |-> "idle", zp |-> 0]]
    /\ UNCHANGED <<watcherVars, lockVars, engineVars, newVars, errCh, fault, files, running, stopCh, backend, loopVars,
                   main, budgetVars, stopHit, chg>>

-----------------------------------------------------------------------------
(* The main goroutine of runCmd *)

\* engine.SetPlaylist(zoneID, w.Files()) for each template zone, before Play
mainSetup(fl) ==
    /\ main.ph = "setup"
    /\ LET t == FindZone(zones, zones[main.i]) IN
       IF t = 0 THEN UNCHANGED <<files, obs>>
       ELSE files' = [files EXCEPT ![t] = fl] /\ obsStore(fl)
    /\ main' = IF main.i < Len(zones)
               THEN [main EXCEPT !.i = @ + 1]
               ELSE [main EXCEPT !.ph = "play", !.i = 1]
    /\ UNCHANGED <<watcherVars, lockVars, engineVars, newVars, errCh, fault, running, stopCh, restartCh, backend, loopVars,
                   upd, budgetVars, stopHit, chg>>

\* Engine.Play: the result channel, and one goroutine per zone, each running
\* its ZonePlayer's loop
Play ==
    /\ main.ph = "play"
    /\ errCh' = << >>
    /\ pc' = [g \in DOMAIN pc |-> "check"]
    /\ gz' = [g \in DOMAIN gz |-> PlayTarget(g)]
    /\ main' = [main EXCEPT !.ph = "wait"]
    /\ UNCHANGED <<watcherVars, lockVars, obs, engineVars, newVars, fault, files, running, stopCh, restartCh, backend,
                   lfiles, perr, upd, budgetVars, stopHit, chg>>

\* the select of runCmd. A termination signal arrives: engine.Stop(), after
\* which the function returns and the deferred engine.Release() runs. A value
\* is received from the result channel: the function returns at once.
mainSignal ==
    /\ main.ph = "wait"
    /\ \/ /\ main' = [ph |-> "stop", i |-> 1, st |-> "close"]
          /\ UNCHANGED errCh
       \/ /\ Len(errCh) > 0
          /\ errCh' = Tail(errCh)
          /\ main' = [ph |-> "release", i |-> 1, st |-> "close"]
    /\ UNCHANGED <<watcherVars, lockVars, obs, engineVars, newVars, fault, files, running, stopCh, restartCh, backend,
                   loopVars, upd, budgetVars, stopHit, chg>>

\* the step of main that follows ZonePlayer.stop() on zone main.i
afterZpStop ==
    IF main.ph = "release"
    THEN [main EXCEPT !.st = "brelease"]
    ELSE IF main.i < Len(zones)
         THEN [main EXCEPT !.i = @ + 1, !.st = "close"]
         ELSE [main EXCEPT !.ph = "release", !.i = 1, !.st = "close"]

\* ZonePlayer.stop(), first step: close(zp.stopCh) unless closed
zpStopClose ==
    /\ main.ph \in {"stop", "release"}
    /\ main.st = "close"
    /\ stopCh' = [stopCh EXCEPT ![main.i] = stopClose(@)]
    /\ main' = [main EXCEPT !.st = "bstop"]
    /\ fault' = (fault \/ closePanics(stopCloses(stopCh[main.i]), stopCh[main.i]))
    /\ noteFailure(main.i)
    /\ UNCHANGED <<watcherVars, lockVars, obs, engineVars, newVars, errCh, files, running, restartCh, backend, loopVars,
                   upd, budgetVars, stopHit>>

\* ZonePlayer.stop(), second step: zp.backend.Stop()
zpStopBackend ==
    /\ main.ph \in {"stop", "release"}
    /\ main.st = "bstop"
    /\ applyStop(main.i)
    /\ main' = [main EXCEPT !.st = "clear"]
    /\ UNCHANGED <<watcherVars, lockVars, obs, engineVars, newVars, errCh, files, running, stopCh, restartCh, loopVars,
                   upd, budgetVars, chg>>

\* ZonePlayer.stop(), third step: zp.running = false under zp.mu
zpStopClear ==
    /\ main.ph \in {"stop", "release"}
    /\ main.st = "clear"
    /\ running' = [running EXCEPT ![main.i] = FALSE]
    /\ main' = afterZpStop
    /\ UNCHANGED <<watcherVars, lockVars, obs, engineVars, newVars, errCh, fault, files, stopCh, restartCh, backend, loopVars,
                   upd, budgetVars, stopHit, chg>>

\* Engine.Release: zp.backend.Release() on zone main.i.
\* devBackend.Release is kill(); prodBackend.Release is Stop() and then,
\* under b.mu, the release of the media list, the list player and the toolkit
backendRelease ==
    /\ main.ph = "release"
    /\ main.st = "brelease"
    /\ applyStop(main.i)
    /\ main' = [main EXCEPT !.st = "released"]
    /\ UNCHANGED <<watcherVars, lockVars, obs, engineVars, newVars, errCh, files, running, stopCh, restartCh, loopVars,
                   upd, budgetVars, chg>>

backendReleased ==
    /\ main.ph = "release"
    /\ main.st = "released"
    /\ backend' = [backend EXCEPT ![main.i] = releaseHandles(@)]
    /\ fault' = (fault \/ (build = "prod" /\
                   doubleRelease(releaseFrees(backend[main.i]),
                                 backend[main.i].released)))
    /\ main' = IF main.i < Len(zones)
               THEN [main EXCEPT !.i = @ + 1, !.st = "close"]
               ELSE [main EXCEPT !.ph = "exit", !.i = 1, !.st = "none"]
    /\ UNCHANGED <<watcherVars, lockVars, obs, engineVars, newVars, errCh, files, running, stopCh, restartCh, loopVars,
                   upd, budgetVars, stopHit, chg>>

-----------------------------------------------------------------------------
(* NewEngine: one backend and one ZonePlayer per template zone, in order *)

\* the state before NewEngine is called on template tmpl
PreConstruct(tmpl, nUpdates, nCrashes) ==
    /\ build \in Builds
    /\ zones = << >>
    /\ files = << >>
    /\ running = << >>
    /\ stopCh = << >>
    /\ restartCh = << >>
    /\ backend = << >>
    /\ pc = << >>
    /\ gz = << >>
    /\ lfiles = << >>
    /\ perr = << >>
    /\ upd = << >>
    /\ main = [ph |-> "new", i |-> 1, st |-> "none"]
    /\ updLeft = nUpdates
    /\ crashLeft = nCrashes
    /\ errCh = << >>
    /\ fault = FALSE
    /\ newLeft = tmpl
    /\ newErr = 0
    /\ stopHit = << >>
    /\ chg = << >>

\* the default template with the events of Init, or the two-zone template
InitNew ==
    /\ \/ PreConstruct(Fullscreen, MaxUpdates, MaxCrashes)
       \/ PreConstruct(MainWithFooter, 0, 0)
    /\ NoWatcher
    /\ AtRest
    /\ Unobserved /\ NoLocks

\* the failure path after n zones were built: e.Release() stops and releases
\* each of them, then NewEngine returns nil and the error
newFailNoRelease(n) == [ph |-> "exit", i |-> 1, st |-> "none"]

newFail(n) ==
    IF n = 0
    THEN [ph |-> "exit", i |-> 1, st |-> "none"]
    ELSE [ph |-> "release", i |-> 1, st |-> "close"]

\* one iteration of NewEngine's loop: newBackend() and Init() succeed and the
\* ZonePlayer is appended to e.zones
newZone ==
    /\ main.ph = "new"
    /\ newLeft # << >>
    /\ zones' = Append(zones, Head(newLeft))
    /\ files' = Append(files, << >>)
    /\ running' = Append(running, FALSE)
    /\ stopCh' = Append(stopCh, FALSE)
    /\ restartCh' = Append(restartCh, 0)
    /\ backend' = Append(backend, NewBackend)
    /\ pc' = Append(pc, "idle")
    /\ gz' = Append(gz, Len(gz) + 1)
    /\ lfiles' = Append(lfiles, << >>)
    /\ perr' = Append(perr, "none")
    /\ upd' = Append(upd, [pc |-> "idle", zp |-> 0])
    /\ stopHit' = Append(stopHit, FALSE)
    /\ chg' = Append(chg, [on |-> FALSE, starts |-> 0])
    /\ newLeft' = Tail(newLeft)
    /\ main' = IF Tail(newLeft) = << >> THEN [main EXCEPT !.ph = "setup"] ELSE main
    /\ UNCHANGED <<watcherVars, lockVars, obs, build, newErr, errCh, fault, budgetVars>>

\* one iteration of NewEngine's loop: newBackend() or Init() returns an error
newZoneFails ==
    /\ main.ph = "new"
    /\ newLeft # << >>
    /\ newErr' = Len(zones) + 1
    /\ main' = newFail(Len(zones))
    /\ UNCHANGED <<watcherVars, lockVars, obs, engineVars, newLeft, errCh, fault, files, running, stopCh,
                   restartCh, backend, loopVars, upd, budgetVars, stopHit, chg>>

-----------------------------------------------------------------------------
(* The directory watcher on its own: NewWatcher, Start, Stop and the file    *)
(* system                                                                    *)

\* before NewWatcher(wdir, onChange): any directory content; the engine side
\* is at rest
InitWatch ==
    /\ Construct(Fullscreen, 0, 0)
    /\ Unobserved /\ NoLocks
    /\ build = "dev"
    /\ AtRest
    /\ wdir \in WatchDirs
    /\ dir \in SUBSET (DOMAIN Entries)
    /\ wfiles = << >>
    /\ wpc = "none"
    /\ watched = FALSE
    /\ wev = << >>
    /\ wcb = [n |-> 0, arg |-> << >>]
    /\ chgLeft = MaxDirChanges
    /\ readable = TRUE
    /\ wstopCh = FALSE
    /\ wfault = FALSE
    /\ stopLeft = MaxStops
    /\ whist = [events |-> 0, recv |-> 0, scans |-> 0, ok |-> TRUE, at |-> {}]

\* NewWatcher: the initial scan, before the watch loop exists
NewWatcherCall ==
    /\ wpc = "none"
    /\ wfiles' = scanFiles(wfiles, wdir, dir, readable)
    /\ whist' = [whist EXCEPT !.ok = readable, !.at = dir]
    /\ wpc' = "made"
    /\ UNCHANGED <<playerVars, wdir, dir, watched, wev, wcb, chgLeft,
                   readable, wstopCh, wfault, stopLeft>>

\* Watcher.Start: w.watcher.Add(w.dir), then the loop; on a closed fsnotify
\* watcher Add fails and Start returns the error
wStart ==
    /\ wpc = "made"
    /\ ~wfault
    /\ IF wstopCh
       THEN wpc' = "exit" /\ UNCHANGED watched
       ELSE wpc' = "loop" /\ watched' = TRUE
    /\ UNCHANGED <<playerVars, wdir, dir, wfiles, wev, wcb, chgLeft,
                   readable, wstopCh, wfault, stopLeft, whist>>

\* a registered watch queues the event op
queued(op) == IF watched THEN Append(wev, op) ELSE wev

\* isRelevantEvent: create, remove and rename
isRelevantEventCreate(op) == op = "create"

isRelevantEventAny(op) == TRUE

isRelevantEvent(op) == op \in {"create", "remove", "rename"}

\* history: the watch queues one more create, remove or rename event
noteEvent == IF watched THEN [whist EXCEPT !.events = @ + 1] ELSE whist

\* the file system: entry e is created in the directory, or removed from it
\* (op = "remove") or moved out of it (op = "rename")
dirChange(e, op) ==
    /\ chgLeft > 0
    /\ chgLeft' = chgLeft - 1
    /\ dir' = IF e \in dir THEN dir \ {e} ELSE dir \cup {e}
    /\ wev' = queued(IF e \in dir THEN op ELSE "create")
    /\ whist' = noteEvent
    /\ UNCHANGED <<playerVars, wdir, wfiles, wpc, watched, wcb, readable,
                   wstopCh, wfault, stopLeft>>

\* the file system: the content of file e of the directory is written in
\* place
dirWrite(e) ==
    /\ chgLeft > 0
    /\ e \in dir
    /\ ~Entries[e].isDir
    /\ chgLeft' = chgLeft - 1
    /\ wev' = queued("write")
    /\ UNCHANGED <<playerVars, wdir, dir, wfiles, wpc, watched, wcb, readable,
                   wstopCh, wfault, stopLeft, whist>>

\* the file system: the permissions of the directory change, and reading it
\* starts or stops to fail
dirChmod ==
    /\ chgLeft > 0
    /\ chgLeft' = chgLeft - 1
    /\ readable' = ~readable
    /\ wev' = queued("chmod")
    /\ UNCHANGED <<playerVars, wdir, dir, wfiles, wpc, watched, wcb, wstopCh,
                   wfault, stopLeft, whist>>

\* the loop receives an event; a relevant one triggers w.scan()
wEvent ==
    /\ wpc = "loop"
    /\ ~wfault
    /\ wev # << >>
    /\ wev' = Tail(wev)
    /\ IF isRelevantEvent(Head(wev))
       THEN /\ wfiles' = scanFiles(wfiles, wdir, dir, readable)
            /\ whist' = [whist EXCEPT !.recv = @ + 1, !.scans = @ + 1,
                                      !.ok = readable, !.at = dir]
            /\ wpc' = "cb"
       ELSE /\ whist' = [whist EXCEPT !.recv = @ + 1]
            /\ UNCHANGED <<wfiles, wpc>>
    /\ UNCHANGED <<playerVars, wdir, dir, watched, wcb, chgLeft, readable,
                   wstopCh, wfault, stopLeft>>

\* w.onChange(w.Files())
wCallback ==
    /\ wpc = "cb"
    /\ ~wfault
    /\ wcb' = [n |-> wcb.n + 1, arg |-> wfiles]
    /\ wpc' = "loop"
    /\ UNCHANGED <<playerVars, wdir, dir, wfiles, watched, wev, chgLeft,
                   readable, wstopCh, wfault, stopLeft, whist>>

\* the loop's select finds stopCh closed, or watcher.Events closed: Start
\* returns
wExit ==
    /\ wpc = "loop"
    /\ ~wfault
    /\ wstopCh
    /\ wpc' = "exit"
    /\ UNCHANGED <<playerVars, wdir, dir, wfiles, watched, wev, wcb, chgLeft,
                   readable, wstopCh, wfault, stopLeft, whist>>

\* Watcher.Stop: close(w.stopCh), which panics on a closed channel, then
\* w.watcher.Close(), which removes the OS watch
wStop ==
    /\ wpc # "none"
    /\ ~wfault
    /\ stopLeft > 0
    /\ stopLeft' = stopLeft - 1
    /\ IF closePanics(TRUE, wstopCh)
       THEN wfault' = TRUE /\ UNCHANGED <<wstopCh, watched>>
       ELSE wstopCh' = TRUE /\ watched' = FALSE /\ UNCHANGED wfault
    /\ UNCHANGED <<playerVars, wdir, dir, wfiles, wpc, wev, wcb, chgLeft,
                   readable, whist>>

watcherStep ==
    \/ NewWatcherCall
    \/ wStart
    \/ wEvent
    \/ wCallback
    \/ wExit

NextWatch ==
    \/ watcherStep
    \/ wStop
    \/ \E e \in DOMAIN Entries : \E op \in {"remove", "rename"} :
          dirChange(e, op)
    \/ \E e \in DOMAIN Entries : dirWrite(e)
    \/ dirChmod

SpecWatch == InitWatch /\ [][NextWatch]_vars

\* the caller constructs and starts the watcher, and the watch goroutine runs;
\* nothing obliges the directory to change or the caller to stop the watcher
FairSpecWatch == InitWatch /\ [][NextWatch]_vars /\ WF_vars(watcherStep)

-----------------------------------------------------------------------------
(* Package media on its own: Detect and IsSupported applied to two names *)

\* 'a'..'z' become 'A'..'Z' in every byte of str, or in byte k only
ToUpper(str) == [i \in DOMAIN str |-> IF str[i] >= 97 /\ str[i] <= 122
                                        THEN str[i] - 32 ELSE str[i]]
UpperAt(str, k) == [i \in DOMAIN str |-> IF i = k THEN ToUpper(str)[i]
                                         ELSE str[i]]

\* what may precede the extension: nothing, "a", "b.x", "d.mp4/e"
Stems ==
    { << >>,
      <<97>>,
      <<98, 46, 120>>,
      <<100, 46, 109, 112, 52, 47, 101>> }

\* extensions: the recognised ones in lower case, in upper case and with a
\* capital first letter, and .txt, .mp3, .mp, .mp4x, "." and none
NameExts ==
    LET known == videoExts \cup imageExts IN
        known \cup {ToUpper(e) : e \in known} \cup {UpperAt(e, 2) : e \in known}
            \cup { <<46, 116, 120, 116>>,
                   <<46, 109, 112, 51>>,
                   <<46, 109, 112>>,
                   <<46, 109, 112, 52, 120>>,
                   <<46>>,
                   << >> }

\* file names and paths, each with the extension it was built with (a name
\* built with no extension has no dot in its last element)
Names ==
    {[stem |-> st, ext |-> e, name |-> st \o e] :
        st \in Stems, e \in NameExts \ {<< >>}}
    \cup {[stem |-> st, ext |-> << >>, name |-> st] :
            st \in Stems \ {<<98, 46, 120>>}}

InitMedia ==
    /\ Construct(Fullscreen, 0, 0)
    /\ Unobserved /\ NoLocks
    /\ build = "dev"
    /\ NoWatcher
    /\ NoGeom
    /\ NoInit
    /\ \E a \in Names, b \in Names : mcall = [st |-> "new", a |-> a, b |-> b]

\* media.Detect on both names
mediaDetect ==
    /\ mcall.st = "new"
    /\ mcall' = [st |-> "detected", a |-> mcall.a, b |-> mcall.b,
                 ra |-> Detect(mcall.a.name), rb |-> Detect(mcall.b.name)]
    /\ UNCHANGED <<gcall, vlcInitOnce, vlcInitErr, ipc, ihist>>
    /\ UNCHANGED <<lockVars, obs, build, zones, files, running, stopCh, restartCh, backend,
                   pc, gz, lfiles, perr, upd, main, updLeft, crashLeft, errCh,
                   fault, newLeft, newErr, stopHit, chg>>
    /\ UNCHANGED <<wdir, dir, wfiles, wpc, watched, wev, wcb, chgLeft,
                   readable, wstopCh, wfault, stopLeft, whist>>

\* media.IsSupported on both names
mediaIsSupported ==
    /\ mcall.st = "detected"
    /\ mcall' = [mcall EXCEPT !.st = "done"] @@
                   [sa |-> IsSupported(mcall.a.name),
                    sb |-> IsSupported(mcall.b.name)]
    /\ UNCHANGED <<gcall, vlcInitOnce, vlcInitErr, ipc, ihist>>
    /\ UNCHANGED <<lockVars, obs, build, zones, files, running, stopCh, restartCh, backend,
                   pc, gz, lfiles, perr, upd, main, updLeft, crashLeft, errCh,
                   fault, newLeft, newErr, stopHit, chg>>
    /\ UNCHANGED <<wdir, dir, wfiles, wpc, watched, wev, wcb, chgLeft,
                   readable, wstopCh, wfault, stopLeft, whist>>

NextMedia == mediaDetect \/ mediaIsSupported

SpecMedia == InitMedia /\ [][NextMedia]_vars

-----------------------------------------------------------------------------
(* Window geometry of the subprocess backends: Init stores the zone and the  *)
(* screen size, PlayAll builds the player's arguments and, for cvlc on       *)
(* Linux, moves the window with xdotool                                      *)

\* percent values of zone rectangles, and screen sizes in pixels
Percents == {0, 15, 50, 85, 100}
ScreenWidths == {1920, 1366, 7}
ScreenHeights == {1080, 5}

\* devBackend; vlcBackend with runtime.GOOS "windows" and "linux"
Variants == {"dev", "vlc-windows", "vlc-linux"}

\* Template.Validate: the tests on one zone's rectangle
ValidZone(z) ==
    /\ ~(z.Width <= 0 \/ z.Height <= 0)
    /\ ~(z.X < 0 \/ z.Y < 0 \/ z.X + z.Width > 100 \/ z.Y + z.Height > 100)

GeomZones ==
    {z \in [X : Percents, Y : Percents, Width : Percents, Height : Percents] :
        ValidZone(z)}

\* strconv.Itoa of a number that is not negative: its decimal digits
RECURSIVE Itoa(_)
Itoa(n) == IF n < 10 THEN <<48 + n>> ELSE Itoa(n \div 10) \o <<48 + (n % 10)>>

\* one percent coordinate in pixels: zone.X * screenW / 100 on operands that
\* are not negative
pixelDivFirst(pct, size) == (pct \div 100) * size

pixel(pct, size) == (pct * size) \div 100

\* the pixel rectangle of zone z on a screen of w by h: x, y, width, height
pixelRect(z, w, h) ==
    [x |-> pixel(z.X, w), y |-> pixel(z.Y, h),
     w |-> pixel(z.Width, w), h |-> pixel(z.Height, h)]

\* a player argument: a flag alone, or a flag with a number
Flag(name) == [name |-> name, val |-> << >>]
FlagInt(name, n) == [name |-> name, val |-> Itoa(n)]

\* the arguments every call starts from (those that matter here, and the
\* first and last of the others)
devBaseArgs == <<Flag("--fullscreen"), Flag("--no-video-deco"), Flag("--loop"),
                 Flag("--quiet")>>
windowsBaseArgs == <<Flag("--no-video-deco"), Flag("--loop"), Flag("--quiet")>>
linuxBaseArgs == <<Flag("--no-video-title-show"), Flag("--loop"),
                   Flag("--quiet")>>

\* the loop that drops "--fullscreen"
RECURSIVE dropFullscreen(_)
dropFullscreen(args) ==
    IF args = << >> THEN << >>
    ELSE IF Head(args).name # "--fullscreen"
         THEN <<Head(args)>> \o dropFullscreen(Tail(args))
         ELSE dropFullscreen(Tail(args))

\* devBackend.buildArgs, without the file list
devBuildArgs(z, w, h) ==
    IF z.Width < 100 \/ z.Height < 100 \/ z.X > 0 \/ z.Y > 0
    THEN LET r == pixelRect(z, w, h) IN
            dropFullscreen(devBaseArgs) \o
                <<FlagInt("--video-x", r.x), FlagInt("--video-y", r.y),
                  FlagInt("--width", r.w), FlagInt("--height", r.h)>>
    ELSE devBaseArgs

\* vlcBackend.Init: b.isFullZone
isFullZone(z) == z.X = 0 /\ z.Y = 0 /\ z.Width >= 100 /\ z.Height >= 100

\* vlcBackend.buildWindowsArgs, without the file list
buildWindowsArgs(z, w, h) ==
    IF isFullZone(z)
    THEN windowsBaseArgs \o <<Flag("--fullscreen")>>
    ELSE LET r == pixelRect(z, w, h) IN
            windowsBaseArgs \o
                <<FlagInt("--width", r.w), FlagInt("--height", r.h),
                  FlagInt("--video-x", r.x), FlagInt("--video-y", r.y)>>

\* vlcBackend.buildLinuxArgs, without the file list
buildLinuxArgs(z, w, h) == linuxBaseArgs

\* vlcBackend.positionWindow: the rectangle handed to xdotool
positionWindow(z, w, h) ==
    IF isFullZone(z) THEN [x |-> 0, y |-> 0, w |-> w, h |-> h]
    ELSE pixelRect(z, w, h)

InitGeom ==
    /\ Construct(Fullscreen, 0, 0)
    /\ Unobserved /\ NoLocks
    /\ build = "dev"
    /\ NoWatcher
    /\ NoMedia
    /\ NoInit
    /\ \E v \in Variants, z \in GeomZones, w \in ScreenWidths,
          h \in ScreenHeights, found \in BOOLEAN :
          /\ v # "vlc-linux" => found
          /\ gcall = [st |-> "new", variant |-> v, zone |-> z, argW |-> w,
                      argH |-> h, found |-> found]

\* Init(zone, screenW, screenH): the backend stores its geometry
geomInit ==
    /\ gcall.st = "new"
    /\ gcall' = [st |-> "init", variant |-> gcall.variant,
                 found |-> gcall.found, zone |-> gcall.zone,
                 screenW |-> gcall.argW, screenH |-> gcall.argH]
    /\ UNCHANGED <<mcall, vlcInitOnce, vlcInitErr, ipc, ihist>>
    /\ UNCHANGED <<lockVars, obs, build, zones, files, running, stopCh, restartCh, backend,
                   pc, gz, lfiles, perr, upd, main, updLeft, crashLeft, errCh,
                   fault, newLeft, newErr, stopHit, chg>>
    /\ UNCHANGED <<wdir, dir, wfiles, wpc, watched, wev, wcb, chgLeft,
                   readable, wstopCh, wfault, stopLeft, whist>>

\* PlayAll: the arguments of the player process; on Linux vlcBackend then
\* positions the window, if xdotool finds it (rect is empty otherwise and
\* for the backends that do not use xdotool)
geomPlayAll ==
    /\ gcall.st = "init"
    /\ LET z == gcall.zone
           w == gcall.screenW
           h == gcall.screenH
       IN  gcall' = [gcall EXCEPT !.st = "done"] @@
             [args |-> CASE gcall.variant = "dev" -> devBuildArgs(z, w, h)
                         [] gcall.variant = "vlc-windows" ->
                                buildWindowsArgs(z, w, h)
                         [] gcall.variant = "vlc-linux" ->
                                buildLinuxArgs(z, w, h),
              rect |-> IF gcall.variant = "vlc-linux" /\ gcall.found
                       THEN <<positionWindow(z, w, h)>>
                       ELSE << >>]
    /\ UNCHANGED <<mcall, vlcInitOnce, vlcInitErr, ipc, ihist>>
    /\ UNCHANGED <<lockVars, obs, build, zones, files, running, stopCh, restartCh, backend,
                   pc, gz, lfiles, perr, upd, main, updLeft, crashLeft, errCh,
                   fault, newLeft, newErr, stopHit, chg>>
    /\ UNCHANGED <<wdir, dir, wfiles, wpc, watched, wev, wcb, chgLeft,
                   readable, wstopCh, wfault, stopLeft, whist>>

NextGeom == geomInit \/ geomPlayAll

SpecGeom == InitGeom /\ [][NextGeom]_vars

-----------------------------------------------------------------------------
(* prodBackend.Init on several backends of one process, in any interleaving  *)

\* the zone rectangles of MainWithFooter and Fullscreen, and the screen size
\* the run command defaults to
InitZoneRects ==
    << [X |-> 0, Y |-> 0, Width |-> 100, Height |-> 85],
       [X |-> 0, Y |-> 85, Width |-> 100, Height |-> 15],
       [X |-> 0, Y |-> 0, Width |-> 100, Height |-> 100] >>
DefaultScreenW == 1920
DefaultScreenH == 1080

\* the zone handed to Init on backend c
InitZoneOf(c) == InitZoneRects[((c - 1) % Len(InitZoneRects)) + 1]

\* the flags of libvlc.Init (those that matter here, and the first and last
\* of the others) for zone z on a screen of w by h
prodBaseFlags == <<Flag("--intf=dummy"), Flag("--fullscreen"),
                   Flag("--embedded-video"), Flag("--quiet")>>

prodInitFlags(z, w, h) ==
    IF z.Width < 100 \/ z.Height < 100 \/ z.X > 0 \/ z.Y > 0
    THEN LET r == pixelRect(z, w, h) IN
            dropFullscreen(prodBaseFlags) \o
                <<FlagInt("--video-x", r.x), FlagInt("--video-y", r.y),
                  FlagInt("--width", r.w), FlagInt("--height", r.h)>>
    ELSE prodBaseFlags

\* sync.Once.Do: the caller runs the function iff no caller has begun it
onceEntersAlways(once) == TRUE

onceEnters(once) == once = "new"

InitOnce ==
    /\ Construct(Fullscreen, 0, 0)
    /\ Unobserved /\ NoLocks
    /\ build = "prod"
    /\ NoWatcher
    /\ NoMedia
    /\ NoGeom
    /\ vlcInitOnce = "new"
    /\ vlcInitErr = "nil"
    /\ ipc = [c \in 1..MaxBackends |->
                [pc |-> "idle", ret |-> "none", left |-> MaxInitCalls]]
    /\ ihist = [first |-> 0, inits |-> << >>]

onceFrame ==
    /\ UNCHANGED <<mcall, gcall>>
    /\ UNCHANGED <<lockVars, obs, build, zones, files, running, stopCh, restartCh, backend,
                   pc, gz, lfiles, perr, upd, main, updLeft, crashLeft, errCh,
                   fault, newLeft, newErr, stopHit, chg>>
    /\ UNCHANGED <<wdir, dir, wfiles, wpc, watched, wev, wcb, chgLeft,
                   readable, wstopCh, wfault, stopLeft, whist>>

\* Init is called on backend c: it stores its zone and makes b.stopped (both
\* its own), then vlcInitOnce.Do: the caller runs the function, or waits
\* while another caller runs it, or goes on when it has been run
initCall(c) ==
    /\ ipc[c].pc = "idle"
    /\ ipc[c].left > 0
    /\ vlcInitOnce # "running" \/ onceEnters(vlcInitOnce)
    /\ ipc' = [ipc EXCEPT ![c] = [pc |-> IF onceEnters(vlcInitOnce)
                                         THEN "f" ELSE "check",
                                  ret |-> "none", left |-> @.left - 1]]
    /\ vlcInitOnce' = IF onceEnters(vlcInitOnce) THEN "running"
                      ELSE vlcInitOnce
    /\ ihist' = IF ihist.first = 0 THEN [ihist EXCEPT !.first = c] ELSE ihist
    /\ UNCHANGED vlcInitErr
    /\ onceFrame

\* the function handed to Do: vlcInitErr = libvlc.Init(flags...), with the
\* flags of the caller's zone; the toolkit starts or fails
initFunc(c) ==
    /\ ipc[c].pc = "f"
    /\ \E err \in {"nil", "err"} : vlcInitErr' = err
    /\ ihist' = [ihist EXCEPT !.inits = Append(@,
                    [by |-> c, zone |-> InitZoneOf(c),
                     flags |-> prodInitFlags(InitZoneOf(c), DefaultScreenW,
                                             DefaultScreenH)])]
    /\ vlcInitOnce' = "done"
    /\ ipc' = [ipc EXCEPT ![c].pc = "check"]
    /\ onceFrame

\* after Do: the test of vlcInitErr, then libvlc.NewListPlayer(), which may
\* fail too; Init returns
initReturn(c) ==
    /\ ipc[c].pc = "check"
    /\ \E r \in {"nil", "list player creation failed"} :
          ipc' = [ipc EXCEPT ![c].pc = "ret",
                             ![c].ret = IF vlcInitErr # "nil"
                                        THEN "libvlc init failed" ELSE r]
    /\ UNCHANGED <<vlcInitOnce, vlcInitErr, ihist>>
    /\ onceFrame

\* the backend is handed to Init again
initAgain(c) ==
    /\ ipc[c].pc = "ret"
    /\ ipc[c].left > 0
    /\ ipc' = [ipc EXCEPT ![c].pc = "idle"]
    /\ UNCHANGED <<vlcInitOnce, vlcInitErr, ihist>>
    /\ onceFrame

NextOnce ==
    \E c \in 1..MaxBackends :
        initCall(c) \/ initFunc(c) \/ initReturn(c) \/ initAgain(c)

SpecOnce == InitOnce /\ [][NextOnce]_vars

-----------------------------------------------------------------------------
(* Specification *)

runStep(g) ==
    \/ runCheck(g)
    \/ runCopy(g)
    \/ runWait(g)
    \/ runSetRunning(g)
    \/ runClear(g)
    \/ runPost(g)
    \/ runSleep(g)

playAllStep(g) ==
    \/ devPlayAllBegin(g)
    \/ devStart(g)
    \/ devSelect(g)
    \/ prodPlayAllBegin(g)
    \/ prodSelect(g)

updateStep(w) ==
    \/ setPlaylistStop(w)
    \/ setPlaylistSend(w)
    \/ setPlaylistWarn(w)

mainStep ==
    \/ Play
    \/ zpStopClose
    \/ zpStopBackend
    \/ zpStopClear
    \/ backendRelease
    \/ backendReleased

Next ==
    \/ \E g \in DOMAIN pc : runStep(g)
    \/ \E g \in DOMAIN pc : playAllStep(g)
    \/ \E g \in DOMAIN pc : runDeliver(g)
    \/ \E z \in Z : devWait(z)
    \/ \E z \in Z : devExit(z)
    \/ \E w \in DOMAIN upd, fl \in Playlists : setPlaylistBegin(w, fl)
    \/ \E w \in DOMAIN upd, fl \in Playlists : setPlaylistUnknown(w, fl)
    \/ \E w \in DOMAIN upd : updateStep(w)
    \/ \E fl \in Playlists : mainSetup(fl)
    \/ mainSignal
    \/ mainStep

Spec == Init /\ [][Next]_vars

SpecZones == InitZones /\ [][Next]_vars

\* the single-zone program with the history of its calls
InitObs ==
    /\ Construct(Fullscreen, MaxUpdates, MaxCrashes)
    /\ NoWatcher /\ AtRest /\ Observed /\ NoLocks

SpecObs == InitObs /\ [][Next]_vars

\* the run command from the call of NewEngine on
NextNew ==
    \/ newZone
    \/ newZoneFails
    \/ Next

SpecNew == InitNew /\ [][NextNew]_vars

\* Scheduling: every started goroutine keeps running (the loops, the helper
\* goroutine of the subprocess backend, a callback or a stop that has begun).
\* Nothing obliges a watcher event, a termination signal or a backend failure
\* to happen.
Fairness ==
    /\ \A g \in DOMAIN Fullscreen : WF_vars(runStep(g) \/ playAllStep(g) \/ runDeliver(g))
    /\ \A z \in DOMAIN Fullscreen : WF_vars(devWait(z))
    /\ \A w \in DOMAIN Fullscreen : WF_vars(updateStep(w))
    /\ WF_vars(mainStep)
    /\ WF_vars(\E fl \in Playlists : mainSetup(fl))

FairSpec == Init /\ [][Next]_vars /\ Fairness

-----------------------------------------------------------------------------
(* Properties *)

\* ZonePlayer.run has returned in goroutine g (its result is about to be sent
\* or has been sent)
Returned(g) == pc[g] \in {"done", "sent"}

\* no SetPlaylist call is in progress on zone z
UpdIdle(z) == \A w \in DOMAIN upd : upd[w].zp # z

\* goroutine g is blocked in PlayAll's wait and nothing that would end the
\* wait has happened: no shutdown, the child runs, b.stopped is open
Stuck(g) ==
    /\ pc[g] = "select"
    /\ ~stopCh[gz[g]]
    /\ build = "dev" => backend[gz[g]].proc = "running"
    /\ build = "prod" => ~backend[gz[g]].stopped

\* goroutine g makes the call zp.backend.PlayAll(files, zp.stopCh) in this step
CallsPlayAll(g) == pc[g] = "call" /\ pc'[g] # "call"

\* C1: for every interleaving of the loops started by Play with SetPlaylist,
\* Stop, Release and backend exits, a zone has at most one PlayAll in flight.
C1_AtMostOnePlayAll == \A z \in Z : Cardinality(InFlight(z)) <= 1

C1_Witness ==
    /\ \A z \in Z : InFlight(z) # {}
    /\ main.ph = "stop"
    /\ \E w \in DOMAIN upd : upd[w].pc = "stop"

\* C2: once stop() has returned for a zone, its run loop terminates, whatever
\* SetPlaylist calls interleave and wherever in the loop the stop arrived.
C2_StopTerminatesLoop ==
    \A g \in DOMAIN Fullscreen : StopReturned(gz[g]) ~> Returned(g)

C2_Witness ==
    /\ StopReturned(gz[1])
    /\ pc[1] \in {"copy", "setrun", "call", "start", "select"}
    /\ upd[1].pc # "idle"

\* C3: when PlayAll is blocked and Stop() is invoked on its backend or the stop
\* signal is closed, PlayAll returns, and it returns nil, in both backends.
C3_StopUnblocksPlayAll ==
    \A g \in DOMAIN Fullscreen :
        (pc[g] = "select" /\ (stopHit[gz[g]] \/ stopCh[gz[g]]))
            ~> (pc[g] = "clear" /\ perr[g] = "nil")

C3_Witness ==
    /\ build = "prod"
    /\ pc[1] = "select"
    /\ stopHit[gz[1]]
    /\ ~stopCh[gz[1]]

\* C4: a snapshot delivered while the running flag is set (a restart has been
\* signalled) ends the playback call of that running period, and the next
\* PlayAll call gets the new snapshot: the loop is never left blocked in a
\* playback of another list with the restart still pending.
C4_UpdateRestartsPlayback ==
    \A g \in DOMAIN pc :
        (Stuck(g) /\ UpdIdle(gz[g]) /\ restartCh[gz[g]] = 1)
            => lfiles[g] = files[gz[g]]

\* C5: no playlist change is lost: after the last SetPlaylist(z, L), L not
\* empty, with no stop issued, the PlayAll call in flight plays L.
C5_NoChangeLost ==
    \A g \in DOMAIN pc :
        (Stuck(g) /\ UpdIdle(gz[g]) /\ files[gz[g]] # << >>)
            => lfiles[g] = files[gz[g]]

\* C6: a snapshot change while playing causes exactly one restart: once the
\* loop has settled after a SetPlaylist that saw the running flag set, exactly
\* one PlayAll call has begun since that SetPlaylist stored its snapshot.
C6_ExactlyOneRestart ==
    \A g \in DOMAIN pc :
        (Stuck(g) /\ UpdIdle(gz[g]) /\ chg[gz[g]].on)
            => chg[gz[g]].starts = 1

\* C7: SetPlaylist(zoneID, files) changes no other zone's snapshot, running
\* flag, restart signal or shutdown signal and touches no other zone's backend.
C7_OnlyTargetZone ==
    [][\A w \in DOMAIN upd :
          ((\E fl \in Playlists : setPlaylistBegin(w, fl)) \/ updateStep(w))
              => \A z \in Z :
                    zones[z] # zones[w]
                        => /\ files'[z] = files[z]
                           /\ running'[z] = running[z]
                           /\ restartCh'[z] = restartCh[z]
                           /\ stopCh'[z] = stopCh[z]
                           /\ backend'[z] = backend[z]]_vars

C7_Witness ==
    \E w \in DOMAIN upd :
        /\ upd[w].pc = "send"
        /\ \E g \in DOMAIN pc :
              gz[g] # upd[w].zp /\ pc[g] = "select" /\ running[gz[g]]

\* C8: when PlayAll has returned and neither shutdown nor restart is
\* signalled, the loop does not end: it returns to step 1 and calls PlayAll
\* again with the zone's latest snapshot if that snapshot is not empty.
C8_CrashRestartsLoop ==
    \A g \in DOMAIN Fullscreen : \A L \in Playlists \ {<< >>} :
        (/\ pc[g] = "post"
         /\ ~stopCh[gz[g]]
         /\ restartCh[gz[g]] = 0
         /\ files[gz[g]] = L)
            ~> \/ pc[g] = "call" /\ lfiles[g] = L
               \/ files[gz[g]] # L
               \/ stopCh[gz[g]]

C8_Witness ==
    /\ pc[1] = "post"
    /\ crashLeft < MaxCrashes
    /\ ~stopCh[gz[1]]
    /\ restartCh[gz[1]] = 0
    /\ files[gz[1]] # << >>

\* C9: once a zone's shutdown signal is closed, no PlayAll call is started for
\* that zone.
C9_ShutdownIsTerminal ==
    [][\A g \in DOMAIN pc : CallsPlayAll(g) => ~stopCh[gz[g]]]_vars

\* C10: no PlayAll call is started on a backend after Release() on it.
C10_ReleasedLast ==
    [][\A g \in DOMAIN pc : CallsPlayAll(g) => ~backend[gz[g]].released]_vars

\* the number of results that the loops of zone z have sent on Play's channel
ResultsOf(z) == Cardinality({g \in DOMAIN pc : gz[g] = z /\ pc[g] = "sent"})

C12_OnlyTerminalResults ==
    /\ \A i \in DOMAIN errCh : errCh[i] = "nil"
    /\ \A g \in DOMAIN pc : Returned(g) => stopCh[gz[g]]

C12_Witness ==
    /\ crashLeft < MaxCrashes
    /\ Len(errCh) > 0

\* C13: when the backend of the k-th zone cannot be created or initialised,
\* NewEngine returns the error and no engine (nothing is ever started), and by
\* then Release() has been invoked on each of the k-1 backends built before.
C13_FailureReleasesBuilt ==
    (newErr > 0 /\ main.ph = "exit")
        => /\ Len(zones) = newErr - 1
           /\ \A z \in Z : backend[z].released
           /\ \A g \in DOMAIN pc : pc[g] = "idle"

C13_Witness ==
    /\ newErr = 2
    /\ main.ph = "exit"
    /\ backend[1].released

\* C14: SetPlaylist with an ID that no zone has is a no-op: no zone's snapshot,
\* running flag, restart or shutdown signal changes, and no backend operation
\* is invoked (the call goes to the warning and returns).
C14_UnknownZoneNoOp ==
    [][\A w \in DOMAIN upd :
          ((\E fl \in Playlists : setPlaylistUnknown(w, fl)) \/ setPlaylistWarn(w))
              => /\ UNCHANGED <<files, running, restartCh, stopCh, backend,
                                stopHit, fault>>
                 /\ upd'[w].pc \in {"warn", "idle"}
                 /\ upd'[w].zp = 0]_vars

C14_Witness ==
    \E w \in DOMAIN upd :
        /\ upd[w].pc = "warn"
        /\ \E g \in DOMAIN pc : pc[g] = "select" /\ running[gz[g]]

\* C15: stop() called again on a ZonePlayer (Engine.Stop, then Engine.Release)
\* has the effect of one call: no call panics, each call returns with the
\* shutdown signal closed and the running flag clear, and the second call
\* leaves the closed signal as it is.
C15_StopIdempotent ==
    /\ [](~fault)
    /\ [][zpStopClear => (stopCh'[main.i] /\ ~running'[main.i])]_vars
    /\ [][(zpStopClose /\ main.ph = "release") => UNCHANGED stopCh]_vars

C15_Witness ==
    /\ main.ph = "release"
    /\ main.st = "brelease"
    /\ stopCh[main.i]
    /\ ~running[main.i]
    /\ ~Returned(main.i)

C18_ErrorOnlyOnFailure ==
    [][\A g \in DOMAIN pc :
          /\ (pc[g] = "select" /\ pc'[g] = "clear") => perr'[g] = "nil"
          /\ (pc[g] # "clear" /\ pc'[g] = "clear" /\ perr'[g] = "err")
                => \/ crashLeft' < crashLeft
                   \/ backend[gz[g]].released]_vars

C18_Witness ==
    /\ pc[1] = "clear"
    /\ perr[1] = "nil"
    /\ stopHit[1] = FALSE
    /\ ~stopCh[1]
    /\ crashLeft = MaxCrashes
    /\ updLeft < MaxUpdates

\* snap is the sorted list of the paths of the supported files (no
\* directories) among the entries present in directory d
IsListingOf(snap, d, present) ==
    /\ \A i \in 1..(Len(snap) - 1) : LexLess(snap[i], snap[i + 1])
    /\ {snap[i] : i \in DOMAIN snap} =
          {Join(d, Entries[e].name) :
              e \in {f \in present : /\ ~Entries[f].isDir
                                     /\ IsSupported(Entries[f].name)}}

\* the same, and every path is absolute
IsSnapshotOf(snap, d, present) ==
    /\ IsListingOf(snap, d, present)
    /\ \A i \in DOMAIN snap : IsAbs(snap[i])

\* C19: when NewWatcher returns, before Start, Files() is the sorted list of
\* the absolute paths of the supported non-directory entries of the directory.
C19_InitialScan ==
    [][NewWatcherCall /\ readable => IsSnapshotOf(wfiles', wdir, dir)]_vars

\* C20: after any additions and removals, also those made between the initial
\* scan and the registration of the watch, Files() eventually is the sorted
\* list of the paths of the supported files present: whenever the started
\* watcher is back in its loop with no event left to receive, Files() is that
\* list (from there on nothing changes Files() unless the directory changes).
C20_EventuallyCurrent ==
    (wpc = "loop" /\ wev = << >> /\ whist.ok /\ ~wstopCh)
        => IsListingOf(wfiles, wdir, dir)

\* C21: after Start, every creation or removal in the watched directory leads
\* to a rescan followed by one invocation of the callback with the snapshot
\* of that rescan: once the loop has received every queued event it has made
\* one rescan and one callback per create, remove or rename event; each
\* callback receives Files(), which after a rescan that read the directory is
\* the sorted listing of what that rescan met (one entry for one media file,
\* none for an empty directory); and unless the watcher is stopped the k-th
\* such event is followed by the k-th callback.
C21_ChangeFiresCallback ==
    /\ [](wpc = "loop" /\ wev = << >>
             => whist.scans = whist.events /\ wcb.n = whist.scans)
    /\ [][wcb'.n # wcb.n =>
             /\ wcb'.n = wcb.n + 1
             /\ wcb'.arg = wfiles
             /\ whist.ok => IsListingOf(wcb'.arg, wdir, whist.at)]_vars
    /\ \A k \in 1..MaxDirChanges :
          (whist.events >= k) ~> (wcb.n >= k \/ wstopCh)

\* a file was added and then removed after Start: two callbacks, the last
\* one with the empty snapshot of the directory that is empty again
C21_Witness ==
    /\ wpc = "loop"
    /\ wev = << >>
    /\ ~wstopCh
    /\ whist.events = 2
    /\ wcb.n = 2
    /\ wcb.arg = << >>
    /\ whist.ok
    /\ dir = {}
    /\ Len(wfiles) = 0

\* C22: only create, remove and rename events cause a rescan and a callback:
\* before the loop runs (construction, Start) no callback has been made; there
\* are never more rescans than such events nor more callbacks than rescans;
\* and receiving a write event leaves Files() and the callback record
\* unchanged and the loop back in its select.
C22_OnlyMembershipEvents ==
    /\ [](wpc \in {"none", "made"} => wcb.n = 0)
    /\ [](whist.scans <= whist.events /\ wcb.n <= whist.scans)
    /\ [][(wev # << >> /\ wev' = Tail(wev) /\ Head(wev) = "write")
            => (wfiles' = wfiles /\ wcb' = wcb /\ wpc' = "loop")]_vars

\* the started loop has received one event, a write to a file, and has made
\* no rescan and no callback
C22_Witness ==
    /\ wpc = "loop"
    /\ wev = << >>
    /\ whist.recv = 1
    /\ whist.scans = 0
    /\ wcb.n = 0
    /\ readable
    /\ chgLeft = MaxDirChanges - 1
    /\ wfiles # << >>

\* C23: when reading the directory fails during a rescan, the snapshot of
\* that tick is empty: the loop is about to call the callback with the empty
\* Files().
C23_ReadErrorEmptySnapshot ==
    (wpc = "cb" /\ ~whist.ok) => wfiles = << >>

\* C24: Watcher.Stop is idempotent: no call of it faults, and after a call
\* the OS watch is released.
C24_WatcherStopIdempotent ==
    /\ ~wfault
    /\ wstopCh => ~watched

\* C25: while a zone's snapshot is empty the loop never calls PlayAll, and
\* PlayAll is never invoked with an empty file list; the loop leaves the
\* empty-snapshot wait only to return (on shutdown) or to go back to step 1.
C25_EmptyNeverPlays ==
    [][\A g \in DOMAIN pc :
          /\ CallsPlayAll(g) => (files[gz[g]] # << >> /\ lfiles[g] # << >>)
          /\ (pc[g] = "wait" /\ pc'[g] # "wait")
                => /\ pc'[g] \in {"done", "check"}
                   /\ pc'[g] = "done" => stopCh[gz[g]]]_vars

\* C26: a zone waiting with an empty snapshot recovers when content appears:
\* when SetPlaylist has stored the non-empty snapshot L while the loop is in
\* its empty-snapshot wait (running is not set, no restart is signalled), the
\* loop eventually calls PlayAll with L, unless the snapshot changes again or
\* the zone is shut down.
C26_EmptyZoneRecovers ==
    \A g \in DOMAIN Fullscreen : \A L \in Playlists \ {<< >>} :
        (/\ pc[g] = "wait"
         /\ files[gz[g]] = L
         /\ ~running[gz[g]]
         /\ restartCh[gz[g]] = 0
         /\ ~stopCh[gz[g]])
            ~> \/ pc[g] = "call" /\ lfiles[g] = L
               \/ files[gz[g]] # L
               \/ stopCh[gz[g]]

\* the loop waits with its empty copy while the zone already holds a new,
\* non-empty snapshot; nothing has signalled a restart or stopped the backend
C26_Witness ==
    /\ pc[1] = "wait"
    /\ lfiles[1] = << >>
    /\ files[gz[1]] # << >>
    /\ UpdIdle(gz[1])
    /\ updLeft < MaxUpdates
    /\ ~running[gz[1]]
    /\ restartCh[gz[1]] = 0
    /\ ~stopCh[gz[1]]
    /\ ~stopHit[gz[1]]

\* C27: Detect depends only on the lower-cased extension of the name: two
\* names whose extensions are equal up to letter case get the same result,
\* whatever precedes the extension; the result is Video for the ten video
\* extensions, Image for the eight image extensions and Unknown otherwise;
\* IsSupported is true iff Detect is not Unknown.
C27_DetectByExtension ==
    /\ Cardinality(videoExts) = 10
    /\ Cardinality(imageExts) = 8
    /\ mcall.st = "done" =>
          /\ ToLower(mcall.a.ext) = ToLower(mcall.b.ext) => mcall.ra = mcall.rb
          /\ mcall.ra = IF ToLower(mcall.a.ext) \in videoExts THEN "Video"
                        ELSE IF ToLower(mcall.a.ext) \in imageExts THEN "Image"
                        ELSE "Unknown"
          /\ mcall.sa <=> mcall.ra # "Unknown"
          /\ mcall.sb <=> mcall.rb # "Unknown"

\* "d.mp4/e.MKV" and ".mkv": the same extension up to case after different
\* stems, both found to be videos
C27_Witness ==
    /\ mcall.st = "done"
    /\ mcall.a.stem # mcall.b.stem
    /\ mcall.a.ext # mcall.b.ext
    /\ ToLower(mcall.a.ext) = mcall.b.ext
    /\ mcall.ra = "Video"
    /\ mcall.rb = "Video"
    /\ mcall.sa

\* the number written in decimal digits
RECURSIVE Atoi(_)
Atoi(digits) ==
    IF digits = << >> THEN 0
    ELSE 10 * Atoi(SubSeq(digits, 1, Len(digits) - 1))
            + (digits[Len(digits)] - 48)

\* the argument list has the flag; the number given with it
HasFlag(args, name) == \E i \in DOMAIN args : args[i].name = name
FlagValue(args, name) ==
    Atoi(args[CHOOSE i \in DOMAIN args : args[i].name = name].val)

GeometryFlags == {"--video-x", "--video-y", "--width", "--height"}

\* the rectangle (x*W/100, y*H/100, w*W/100, h*H/100), rounded down
ExpectedRect(z, w, h) ==
    [x |-> CHOOSE n \in 0..w : 100 * n <= z.X * w /\ z.X * w < 100 * (n + 1),
     y |-> CHOOSE n \in 0..h : 100 * n <= z.Y * h /\ z.Y * h < 100 * (n + 1),
     w |-> CHOOSE n \in 0..w :
              100 * n <= z.Width * w /\ z.Width * w < 100 * (n + 1),
     h |-> CHOOSE n \in 0..h :
              100 * n <= z.Height * h /\ z.Height * h < 100 * (n + 1)]

FullZone(z) == z = [X |-> 0, Y |-> 0, Width |-> 100, Height |-> 100]

\* the arguments place the window by flags as the claim says
FlagsPlaceWindow(g) ==
    LET r == ExpectedRect(g.zone, g.screenW, g.screenH) IN
        IF FullZone(g.zone)
        THEN /\ HasFlag(g.args, "--fullscreen")
             /\ \A f \in GeometryFlags : ~HasFlag(g.args, f)
        ELSE /\ ~HasFlag(g.args, "--fullscreen")
             /\ \A f \in GeometryFlags : HasFlag(g.args, f)
             /\ FlagValue(g.args, "--video-x") = r.x
             /\ FlagValue(g.args, "--video-y") = r.y
             /\ FlagValue(g.args, "--width") = r.w
             /\ FlagValue(g.args, "--height") = r.h

\* C28 as stated: every backend gives the full zone (0,0,100,100) the
\* fullscreen flag and no position or size flag, and every other zone the
\* four position and size flags, holding (x*W/100, y*H/100, w*W/100,
\* h*H/100) with integer division, and no fullscreen flag.
C28_GeometryByFlags ==
    gcall.st = "done" => FlagsPlaceWindow(gcall)

\* C28, amended: the backends that place the window by player flags
\* (devBackend, vlcBackend on Windows) do so as stated; vlcBackend on Linux
\* passes neither the fullscreen flag nor a position or size flag and, once
\* xdotool finds the window, moves it to the same pixel rectangle, which for
\* the full zone is the whole screen.
C28_Geometry ==
    gcall.st = "done" =>
        IF gcall.variant # "vlc-linux"
        THEN FlagsPlaceWindow(gcall) /\ gcall.rect = << >>
        ELSE /\ \A f \in GeometryFlags \cup {"--fullscreen"} :
                    ~HasFlag(gcall.args, f)
             /\ gcall.found =>
                    gcall.rect = <<ExpectedRect(gcall.zone, gcall.screenW,
                                                gcall.screenH)>>
             /\ (gcall.found /\ FullZone(gcall.zone)) =>
                    gcall.rect = <<[x |-> 0, y |-> 0, w |-> gcall.screenW,
                                    h |-> gcall.screenH]>>
             /\ ~gcall.found => gcall.rect = << >>

\* devBackend has built the arguments of a zone whose pixel coordinates are
\* rounded down: x = 15% of 1366 and height = 15% of 5
C28_Witness ==
    /\ gcall.st = "done"
    /\ gcall.variant = "dev"
    /\ gcall.zone.X = 15
    /\ gcall.zone.Height = 15
    /\ gcall.screenW = 1366
    /\ gcall.screenH = 5
    /\ FlagValue(gcall.args, "--video-x") = 204
    /\ FlagValue(gcall.args, "--height") = 0

\* C29: across any number of Init calls on library-embedded backends, in
\* any interleaving, libvlc.Init runs at most once, with the flags of the
\* zone of the first caller; no caller gets past the gate before that run has
\* ended; and if it failed, every Init call that has returned, the first and
\* the later ones, returned that error (and only then).
C29_InitOnce ==
    /\ Len(ihist.inits) <= 1
    /\ \A i \in DOMAIN ihist.inits :
          /\ ihist.inits[i].by = ihist.first
          /\ FlagsPlaceWindow([zone |-> InitZoneOf(ihist.first),
                               screenW |-> DefaultScreenW,
                               screenH |-> DefaultScreenH,
                               args |-> ihist.inits[i].flags])
    /\ \A c \in DOMAIN ipc :
          /\ ipc[c].pc \in {"check", "ret"}
                => vlcInitOnce = "done" /\ Len(ihist.inits) = 1
          /\ ipc[c].pc = "ret"
                => (ipc[c].ret = "libvlc init failed" <=> vlcInitErr = "err")

\* the footer's backend reached the gate first and the toolkit failed to
\* start; that call, a call on another backend and a repeated call have all
\* returned the error
C29_Witness ==
    /\ ihist.first = 2
    /\ vlcInitErr = "err"
    /\ ipc[2].pc = "ret" /\ ipc[2].ret = "libvlc init failed"
    /\ ipc[1].pc = "ret" /\ ipc[1].ret = "libvlc init failed"
    /\ ipc[1].left = 0
    /\ Len(ihist.inits) = 1

\* Engine.Release() has returned in the run command
ReleaseReturned == main.ph = "exit"

\* C30: after Engine.Release() has returned, a SetPlaylist call made by a
\* watcher callback changes no zone's snapshot, running flag or signals and
\* invokes no operation on a backend.
C30_NoEffectAfterRelease ==
    [][\A w \in DOMAIN upd :
          (/\ ReleaseReturned
           /\ (\E fl \in Playlists : setPlaylistBegin(w, fl)) \/ updateStep(w))
              => UNCHANGED <<files, running, restartCh, stopCh, backend,
                             stopHit>>]_vars

\* C31: at most one restart is pending per zone at any time, and
\* updatePlaylist never blocks delivering a restart: its send step can always
\* be taken, and when a restart is already pending the new one is dropped, so
\* any number of changes during one playback leave at most one queued.
C31_OneRestartPending ==
    /\ \A z \in Z : restartCh[z] <= 1
    /\ \A w \in DOMAIN upd : upd[w].pc = "send" => ENABLED setPlaylistSend(w)

\* two updates have each offered a restart during one playback and the loop
\* has received none of them yet: one is queued, the other was dropped
C31_Witness ==
    /\ obs.on
    /\ obs.sends = 2
    /\ restartCh[1] = 1
    /\ UpdIdle(1)
    /\ updLeft = 0

\* C32: when PlayAll has returned after ZonePlayer.stop() closed the shutdown
\* signal, the loop's post-playback select takes the shutdown case and
\* returns; it takes neither the restart case nor the backoff case, also
\* when a restart is pending at that moment.
C32_ShutdownCaseTaken ==
    [][\A g \in DOMAIN pc :
          (obs.on /\ obs.retStop /\ pc[g] = "post" /\ pc'[g] # "post")
              => pc'[g] = "done"]_vars

\* C33: playlist updates of one zone are observed in the order they occur:
\* the argument of every PlayAll call equals, element for element, the
\* snapshot one SetPlaylist call stored (the one the loop copied), and it is
\* never an earlier snapshot than the one the previous PlayAll was started
\* with.
C33_UpdatesInOrder ==
    [][\A g \in DOMAIN pc :
          (obs.on /\ CallsPlayAll(g))
              => /\ obs.copied \in 1..Len(obs.stored)
                 /\ lfiles[g] = obs.stored[obs.copied]
                 /\ obs.played <= obs.copied
                 /\ obs'.played = obs.copied]_vars

\* the loop has played the first snapshot, a different second one has been
\* stored, and the loop is now in a PlayAll call it started with the second
C33_Witness ==
    /\ obs.on
    /\ Len(obs.stored) >= 2
    /\ obs.stored[1] # obs.stored[2]
    /\ obs.prev = 1
    /\ obs.played = 2
    /\ pc[1] = "select"
    /\ lfiles[1] = obs.stored[2]

\* C34: updatePlaylist on a zone whose running flag is clear only replaces
\* the snapshot: it does not call backend.Stop() and leaves the restart
\* signal unchanged. On a zone whose running flag is set it replaces the
\* snapshot, then calls backend.Stop() once, then leaves a restart pending.
\* No step of it changes anything else of the zone.
C34_UpdateFrame ==
    [][\A w \in DOMAIN upd :
          /\ \A fl \in Playlists :
                setPlaylistBegin(w, fl)
                    => /\ files' = [files EXCEPT ![w] = fl]
                       /\ UNCHANGED <<running, stopCh, restartCh, backend,
                                      stopHit>>
                       /\ ~running[w] => upd'[w].pc = "idle"
                       /\ running[w] => upd'[w] = [pc |-> "stop", zp |-> w]
          /\ setPlaylistStop(w)
                => /\ backend' = [backend EXCEPT ![upd[w].zp] = BackendStop(@)]
                   /\ upd'[w] = [pc |-> "send", zp |-> upd[w].zp]
                   /\ UNCHANGED <<files, running, stopCh, restartCh>>
          /\ setPlaylistSend(w)
                => /\ restartCh' = [restartCh EXCEPT ![upd[w].zp] = 1]
                   /\ upd'[w].pc = "idle"
                   /\ UNCHANGED <<files, running, stopCh, backend,
                                  stopHit>>]_vars

\* the loop has never played (the first snapshot was empty) and waits; one
\* update has stored a non-empty snapshot and returned: no restart is
\* signalled and the backend was not stopped
C34_Witness ==
    /\ pc[1] = "wait"
    /\ lfiles[1] = << >>
    /\ files[1] # << >>
    /\ updLeft = MaxUpdates - 1
    /\ crashLeft = MaxCrashes
    /\ UpdIdle(1)
    /\ upd[1].pc = "idle"
    /\ restartCh[1] = 0
    /\ backend[1] = NewBackend
    /\ ~stopCh[1]

\* the loop of zone z is between setting the running flag for a PlayAll call
\* and clearing it after that call has returned
Playing(z) ==
    \E g \in DOMAIN pc :
        gz[g] = z /\ pc[g] \in {"call", "start", "select", "clear"}

\* C35: in every reachable state a zone's running flag is true if and only
\* if a backend PlayAll call is in progress for that zone, also while stop()
\* runs concurrently with a PlayAll that has not yet unwound.
C35_RunningIffPlaying == \A z \in Z : running[z] <=> Playing(z)

\* C40: after stop() has returned for a zone, the run loop starts at most one
\* further PlayAll call, and that call does not wait for playback to end: the
\* stop signal it is given is closed, so its wait can be left at once.
C40_OneLateCall ==
    obs.on =>
        /\ obs.late <= 1
        /\ \A g \in DOMAIN pc :
              (obs.late = 1 /\ pc[g] = "select")
                  => /\ stopCh[gz[g]]
                     /\ ENABLED (devSelect(g) \/ prodSelect(g))

\* stop() had returned when the loop, which had passed the shutdown test
\* before, called PlayAll; that call has returned
C40_Witness ==
    /\ obs.on
    /\ obs.late = 1
    /\ obs.retStop
    /\ StopReturned(gz[1])
    /\ pc[1] = "clear"
    /\ perr[1] = "nil"

\* C38: in the subprocess backend, when a PlayAll call returns from its wait
\* the child it started has exited or has been sent a kill, and a new
\* command replaces b.cmd only when no child is alive, so a zone never has
\* more than one live child; the helper goroutine that waits for the child
\* always ends, because its send on doneCh needs no reader.
C38_ChildReaped ==
    /\ [][\A g \in DOMAIN pc :
             /\ devSelect(g) => backend'[gz[g]].proc = "dead"
             /\ (devPlayAllBegin(g) /\ pc'[g] = "start")
                   => /\ backend[gz[g]].proc # "running"
                      /\ backend[gz[g]].proc = "dead" => backend[gz[g]].done]_vars
    /\ \A z \in DOMAIN Fullscreen :
          (build = "dev" /\ backend[z].proc = "dead" /\ ~backend[z].done)
              ~> backend[z].done

\* no child exited on its own: the child of the only PlayAll call was killed
\* on shutdown, the call has returned and the loop has ended, and the helper
\* goroutine has delivered the child's exit
C38_Witness ==
    /\ build = "dev"
    /\ crashLeft = MaxCrashes
    /\ stopCh[1]
    /\ pc[1] = "sent"
    /\ backend[1].cmd = "nil"
    /\ backend[1].proc = "dead"
    /\ backend[1].done

-----------------------------------------------------------------------------
(* The single zone at the level of its locks. Every Lock() and every         *)
(* section between a Lock() and its Unlock() is a step of its own.           *)
(* Threads: the goroutine of Play (ZonePlayer.run and, inside it,            *)
(* Backend.PlayAll), one caller of updatePlaylist, and two callers of        *)
(* ZonePlayer.stop() (Engine.Stop and Engine.Release).                       *)

Threads == {"run", "upd", "stopA", "stopB"}

StopThreads == {"stopA", "stopB"}

\* zp.mu.Lock() calls: the position that waits for the mutex and the
\* section it enters
zSection ==
    [lockCopy |-> "copy", lockSetrun |-> "setrun", lockClear |-> "clear",
     lockStore |-> "store", lockFlag |-> "flag"]

\* b.mu.Lock() calls of the backends
bSection ==
    [lockCmd |-> "cmd", lockKill |-> "kill", lockSetup |-> "setup",
     lockBStop |-> "bstop"]

\* zp.mu.Unlock() at the end of a section entered by thread t
unlockZoneMissing(t) == t

unlockZone(t) == "free"

\* b.mu.Unlock() at the end of a section (deferred in kill and Release)
unlockBackend(t) == "free"

\* prodBackend.PlayAll: b.mu.Unlock() before each error return
unlockOnErrorMissing(t) == t

unlockOnError(t) == "free"

InitLocks ==
    /\ Construct(Fullscreen, MaxUpdates, MaxCrashes)
    /\ NoWatcher /\ AtRest /\ Unobserved
    /\ zmu = "free"
    /\ bmu = "free"
    /\ tpc = [t \in Threads |-> IF t = "run" THEN "check" ELSE "idle"]

\* what no lock-level step changes
lkRest ==
    UNCHANGED <<watcherVars, obs, engineVars, newVars, errCh, pc, gz, upd,
                main, stopHit, chg>>

goto(t, pos) == tpc' = [tpc EXCEPT ![t] = pos]

\* zp.mu.Lock() by thread t
lkLockZone(t) ==
    /\ ~fault
    /\ tpc[t] \in DOMAIN zSection
    /\ zmu = "free"
    /\ zmu' = t
    /\ goto(t, zSection[tpc[t]])
    /\ lkRest
    /\ UNCHANGED <<files, running, stopCh, restartCh, backend, lfiles, perr,
                   fault, budgetVars, bmu>>

\* b.mu.Lock() by thread t
lkLockBackend(t) ==
    /\ ~fault
    /\ tpc[t] \in DOMAIN bSection
    /\ bmu = "free"
    /\ bmu' = t
    /\ goto(t, bSection[tpc[t]])
    /\ lkRest
    /\ UNCHANGED <<files, running, stopCh, restartCh, backend, lfiles, perr,
                   fault, budgetVars, zmu>>

\* ZonePlayer.run: the shutdown test at the top of the loop
lkRunCheck ==
    /\ ~fault
    /\ tpc["run"] = "check"
    /\ goto("run", IF checkStop(stopCh[1]) THEN "ret" ELSE "lockCopy")
    /\ lkRest
    /\ UNCHANGED <<files, running, stopCh, restartCh, backend, lfiles, perr,
                   fault, budgetVars, zmu, bmu>>

\* the copy of zp.files, Unlock(), and the test for an empty copy
lkRunCopy ==
    /\ ~fault
    /\ tpc["run"] = "copy"
    /\ lfiles' = [lfiles EXCEPT ![1] = copyFiles(files[1])]
    /\ zmu' = unlockZone("run")
    /\ goto("run", IF Len(lfiles'[1]) = 0 THEN "wait" ELSE "lockSetrun")
    /\ lkRest
    /\ UNCHANGED <<files, running, stopCh, restartCh, backend, perr, fault,
                   budgetVars, bmu>>

\* the empty-playlist select
lkRunWait ==
    /\ ~fault
    /\ tpc["run"] = "wait"
    /\ \/ /\ stopCh[1]
          /\ goto("run", "ret")
          /\ UNCHANGED restartCh
       \/ /\ restartCh[1] > 0
          /\ restartCh' = [restartCh EXCEPT ![1] = 0]
          /\ goto("run", "check")
       \/ /\ goto("run", waitTimeout)
          /\ UNCHANGED restartCh
    /\ lkRest
    /\ UNCHANGED <<files, running, stopCh, backend, lfiles, perr, fault,
                   budgetVars, zmu, bmu>>

\* zp.running = true and Unlock()
lkRunSetRunning ==
    /\ ~fault
    /\ tpc["run"] = "setrun"
    /\ running' = [running EXCEPT ![1] = TRUE]
    /\ zmu' = unlockZone("run")
    /\ goto("run", "call")
    /\ lkRest
    /\ UNCHANGED <<files, stopCh, restartCh, backend, lfiles, perr, fault,
                   budgetVars, bmu>>

\* Backend.PlayAll is entered: the test for an empty list, then b.mu.Lock()
lkPlayAllEntry ==
    /\ ~fault
    /\ tpc["run"] = "call"
    /\ IF Len(lfiles[1]) = 0
       THEN /\ perr' = [perr EXCEPT ![1] = "err"]
            /\ goto("run", "lockClear")
       ELSE /\ goto("run", IF build = "dev" THEN "lockCmd" ELSE "lockSetup")
            /\ UNCHANGED perr
    /\ lkRest
    /\ UNCHANGED <<files, running, stopCh, restartCh, backend, lfiles, fault,
                   budgetVars, zmu, bmu>>

\* devBackend.PlayAll: b.cmd = exec.Command(...), cmd := b.cmd, Unlock()
lkDevCmd ==
    /\ ~fault
    /\ tpc["run"] = "cmd"
    /\ backend' = [backend EXCEPT ![1] =
                      [@ EXCEPT !.cmd = "new", !.proc = "none", !.done = FALSE]]
    /\ bmu' = unlockBackend("run")
    /\ goto("run", "start")
    /\ lkRest
    /\ UNCHANGED <<files, running, stopCh, restartCh, lfiles, perr, fault,
                   budgetVars, zmu>>

\* cmd.Start(), outside the mutex
lkDevStart ==
    /\ ~fault
    /\ tpc["run"] = "start"
    /\ \/ /\ backend' = [backend EXCEPT ![1] =
                            [@ EXCEPT !.proc = "running",
                                      !.cmd = IF @ = "new" THEN "proc" ELSE @]]
          /\ goto("run", "select")
          /\ UNCHANGED <<perr, crashLeft>>
       \/ /\ crashLeft > 0
          /\ crashLeft' = crashLeft - 1
          /\ perr' = [perr EXCEPT ![1] = "err"]
          /\ goto("run", "lockClear")
          /\ UNCHANGED backend
    /\ lkRest
    /\ UNCHANGED <<files, running, stopCh, restartCh, lfiles, fault, updLeft,
                   zmu, bmu>>

\* devBackend.PlayAll's select: on stopCh it goes on to b.kill(), on doneCh
\* it returns
lkDevSelect ==
    /\ ~fault
    /\ build = "dev"
    /\ tpc["run"] = "select"
    /\ \/ /\ stopCh[1]
          /\ goto("run", "lockKill")
          /\ UNCHANGED perr
       \/ /\ backend[1].done
          /\ perr' = [perr EXCEPT ![1] = selectReturn]
          /\ goto("run", "lockClear")
    /\ lkRest
    /\ UNCHANGED <<files, running, stopCh, restartCh, backend, lfiles, fault,
                   budgetVars, zmu, bmu>>

\* b.kill() called by PlayAll, under b.mu, and PlayAll's return
lkDevKill ==
    /\ ~fault
    /\ tpc["run"] = "kill"
    /\ backend' = [backend EXCEPT ![1] = devKill(@)]
    /\ bmu' = unlockBackend("run")
    /\ perr' = [perr EXCEPT ![1] = selectReturn]
    /\ goto("run", "lockClear")
    /\ lkRest
    /\ UNCHANGED <<files, running, stopCh, restartCh, lfiles, fault,
                   budgetVars, zmu>>

\* prodBackend.PlayAll under b.mu: a toolkit call fails (Unlock() and the
\* error return), or the list plays, b.stopped is made anew and Unlock()
lkProdSetup ==
    /\ ~fault
    /\ tpc["run"] = "setup"
    /\ \/ /\ crashLeft > 0
          /\ crashLeft' = crashLeft - 1
          /\ perr' = [perr EXCEPT ![1] = "err"]
          /\ bmu' = unlockOnError("run")
          /\ goto("run", "lockClear")
          /\ UNCHANGED backend
       \/ /\ backend' = [backend EXCEPT ![1] = [@ EXCEPT !.stopped = FALSE]]
          /\ bmu' = unlockBackend("run")
          /\ goto("run", "select")
          /\ UNCHANGED <<perr, crashLeft>>
    /\ lkRest
    /\ UNCHANGED <<files, running, stopCh, restartCh, lfiles, fault, updLeft,
                   zmu>>

\* prodBackend.PlayAll's select on stopCh and b.stopped
lkProdSelect ==
    /\ ~fault
    /\ build = "prod"
    /\ tpc["run"] = "select"
    /\ stopCh[1] \/ backend[1].stopped
    /\ perr' = [perr EXCEPT ![1] = selectReturn]
    /\ goto("run", "lockClear")
    /\ lkRest
    /\ UNCHANGED <<files, running, stopCh, restartCh, backend, lfiles, fault,
                   budgetVars, zmu, bmu>>

\* zp.running = false and Unlock(), after PlayAll has returned
lkRunClear ==
    /\ ~fault
    /\ tpc["run"] = "clear"
    /\ running' = [running EXCEPT ![1] = FALSE]
    /\ perr' = [perr EXCEPT ![1] = "none"]
    /\ zmu' = unlockZone("run")
    /\ goto("run", "post")
    /\ lkRest
    /\ UNCHANGED <<files, stopCh, restartCh, backend, lfiles, fault,
                   budgetVars, bmu>>

\* the post-playback select, and the pause of its default case
lkRunPost ==
    /\ ~fault
    /\ \/ /\ tpc["run"] = "post"
          /\ stopCh[1]
          /\ goto("run", "ret")
          /\ UNCHANGED restartCh
       \/ /\ tpc["run"] = "post"
          /\ restartCh[1] > 0
          /\ restartCh' = [restartCh EXCEPT ![1] = 0]
          /\ goto("run", "check")
       \/ /\ tpc["run"] = "post"
          /\ ~stopCh[1]
          /\ restartCh[1] = 0
          /\ goto("run", postDefault)
          /\ UNCHANGED restartCh
       \/ /\ tpc["run"] = "sleep"
          /\ goto("run", "check")
          /\ UNCHANGED restartCh
    /\ lkRest
    /\ UNCHANGED <<files, running, stopCh, backend, lfiles, perr, fault,
                   budgetVars, zmu, bmu>>

\* updatePlaylist is called
lkUpdCall ==
    /\ ~fault
    /\ tpc["upd"] = "idle"
    /\ updLeft > 0
    /\ updLeft' = updLeft - 1
    /\ goto("upd", "lockStore")
    /\ lkRest
    /\ UNCHANGED <<files, running, stopCh, restartCh, backend, lfiles, perr,
                   fault, crashLeft, zmu, bmu>>

\* zp.files = files, wasRunning := zp.running, Unlock()
lkUpdStore(fl) ==
    /\ ~fault
    /\ tpc["upd"] = "store"
    /\ files' = [files EXCEPT ![1] = fl]
    /\ zmu' = unlockZone("upd")
    /\ goto("upd", IF running[1] THEN "lockBStop" ELSE "idle")
    /\ lkRest
    /\ UNCHANGED <<running, stopCh, restartCh, backend, lfiles, perr, fault,
                   budgetVars, bmu>>

\* Backend.Stop() under b.mu, called by updatePlaylist or by stop():
\* devBackend.kill, or prodBackend.Stop
lkBackendStop(t) ==
    /\ ~fault
    /\ tpc[t] = "bstop"
    /\ backend' = [backend EXCEPT ![1] = BackendStop(@)]
    /\ fault' = (build = "prod" /\
                   closePanics(prodStopCloses(backend[1]), backend[1].stopped))
    /\ bmu' = unlockBackend(t)
    /\ goto(t, IF t = "upd" THEN "send" ELSE "lockFlag")
    /\ lkRest
    /\ UNCHANGED <<files, running, stopCh, restartCh, lfiles, perr,
                   budgetVars, zmu>>

\* the non-blocking send on restartCh
lkUpdSend ==
    /\ ~fault
    /\ tpc["upd"] = "send"
    /\ restartCh' = [restartCh EXCEPT ![1] = restartSend(@)]
    /\ goto("upd", "idle")
    /\ lkRest
    /\ UNCHANGED <<files, running, stopCh, backend, lfiles, perr, fault,
                   budgetVars, zmu, bmu>>

\* ZonePlayer.stop() is called by thread t; its select finds stopCh closed,
\* or takes the default case
lkStopCheck(t) ==
    /\ ~fault
    /\ tpc[t] = "idle"
    /\ goto(t, IF stopCloses(stopCh[1]) THEN "close" ELSE "lockBStop")
    /\ lkRest
    /\ UNCHANGED <<files, running, stopCh, restartCh, backend, lfiles, perr,
                   fault, budgetVars, zmu, bmu>>

\* the default case: close(zp.stopCh)
lkStopClose(t) ==
    /\ ~fault
    /\ tpc[t] = "close"
    /\ fault' = closePanics(TRUE, stopCh[1])
    /\ stopCh' = [stopCh EXCEPT ![1] = stopClose(@)]
    /\ goto(t, IF fault' THEN "panic" ELSE "lockBStop")
    /\ lkRest
    /\ UNCHANGED <<files, running, restartCh, backend, lfiles, perr,
                   budgetVars, zmu, bmu>>

\* zp.running = false and Unlock(), at the end of stop()
lkStopFlag(t) ==
    /\ ~fault
    /\ tpc[t] = "flag"
    /\ running' = [running EXCEPT ![1] = FALSE]
    /\ zmu' = unlockZone(t)
    /\ goto(t, "done")
    /\ lkRest
    /\ UNCHANGED <<files, stopCh, restartCh, backend, lfiles, perr, fault,
                   budgetVars, bmu>>

\* the child process and the helper goroutine of the subprocess backend
lkChild ==
    /\ ~fault
    /\ devWait(1) \/ devExit(1)

lkRunStep ==
    \/ lkRunCheck
    \/ lkRunCopy
    \/ lkRunWait
    \/ lkRunSetRunning
    \/ lkPlayAllEntry
    \/ lkDevCmd
    \/ lkDevStart
    \/ lkDevSelect
    \/ lkDevKill
    \/ lkProdSetup
    \/ lkProdSelect
    \/ lkRunClear
    \/ lkRunPost

lkUpdStep ==
    \/ lkUpdCall
    \/ \E fl \in Playlists : lkUpdStore(fl)
    \/ lkUpdSend

lkStopStep(t) ==
    \/ lkStopCheck(t)
    \/ lkStopClose(t)
    \/ lkStopFlag(t)

\* the next step of thread t, whatever it is
lkStep(t) ==
    \/ lkLockZone(t)
    \/ lkLockBackend(t)
    \/ lkBackendStop(t)
    \/ t = "run" /\ lkRunStep
    \/ t = "upd" /\ lkUpdStep
    \/ t \in StopThreads /\ lkStopStep(t)

NextLocks ==
    \/ \E t \in Threads : lkLockZone(t)
    \/ \E t \in Threads : lkLockBackend(t)
    \/ \E t \in Threads : lkBackendStop(t)
    \/ lkRunCheck
    \/ lkRunCopy
    \/ lkRunWait
    \/ lkRunSetRunning
    \/ lkPlayAllEntry
    \/ lkDevCmd
    \/ lkDevStart
    \/ lkDevSelect
    \/ lkDevKill
    \/ lkProdSetup
    \/ lkProdSelect
    \/ lkRunClear
    \/ lkRunPost
    \/ lkUpdCall
    \/ \E fl \in Playlists : lkUpdStore(fl)
    \/ lkUpdSend
    \/ \E t \in StopThreads : lkStopCheck(t)
    \/ \E t \in StopThreads : lkStopClose(t)
    \/ \E t \in StopThreads : lkStopFlag(t)
    \/ lkChild

SpecLocks == InitLocks /\ [][NextLocks]_vars

\* the sections a thread runs while it holds the backend's mutex, and those
\* it runs while it holds the zone's mutex
BackendSections == {bSection[p] : p \in DOMAIN bSection}

ZoneSections == {zSection[p] : p \in DOMAIN zSection}

\* thread t has begun a call and cannot take its next step
lkBlocked(t) ==
    /\ tpc[t] \notin {"idle", "done", "ret", "panic"}
    /\ ~ENABLED lkStep(t)

\* C36: in both backends, whenever a PlayAll call is blocked in its wait it
\* does not hold the backend's mutex: the mutex is held only inside the
\* sections that change process or handle state, it is released on every
\* path (error returns included) before PlayAll blocks or returns, and its
\* holder is never blocked, so Stop() can always take it.
C36_BackendMutexFree ==
    /\ \A t \in DOMAIN tpc :
          bmu = t => /\ tpc[t] \in BackendSections
                     /\ ~fault => ~lkBlocked(t)
    /\ \A t \in DOMAIN tpc :
          tpc[t] \in {"select", "start", "lockClear", "clear", "post", "wait",
                      "sleep", "check", "ret"} => bmu # t

\* PlayAll is blocked in its wait and updatePlaylist's backend.Stop() holds
\* the backend's mutex
C36_Witness ==
    /\ tpc # << >>
    /\ tpc["run"] = "select"
    /\ ~stopCh[1]
    /\ tpc["upd"] = "bstop"
    /\ bmu = "upd"

\* C37: the zone mutex is never held across a suspension point (PlayAll, the
\* empty-snapshot wait, the backoff pause) and never while backend.Stop() is
\* called: it is held only inside its five short sections, no thread holds a
\* zone mutex and a backend mutex at the same time, and a thread that cannot
\* take its next step waits for a mutex (whose holder can), or is the loop
\* blocked in PlayAll: updatePlaylist and stop() do not deadlock.
C37_ZoneMutexShort ==
    /\ \A t \in DOMAIN tpc :
          zmu = t => /\ tpc[t] \in ZoneSections
                     /\ bmu # t
                     /\ ~fault => ~lkBlocked(t)
    /\ \A t \in DOMAIN tpc :
          (~fault /\ lkBlocked(t))
              => \/ tpc[t] \in DOMAIN zSection /\ zmu \in DOMAIN tpc \ {t}
                 \/ tpc[t] \in DOMAIN bSection /\ bmu \in DOMAIN tpc \ {t}
                 \/ t = "run" /\ tpc[t] = "select"

\* PlayAll is blocked in its wait while updatePlaylist holds the zone mutex
\* to store a snapshot
C37_Witness ==
    /\ tpc # << >>
    /\ tpc["run"] = "select"
    /\ ~stopCh[1]
    /\ tpc["upd"] = "store"
    /\ zmu = "upd"
    /\ bmu = "free"

\* C39: two concurrent invocations of ZonePlayer.stop() on one zone close the
\* shutdown channel exactly once: the test that the channel is still open and
\* the close are never both executed by two threads, and neither call faults.
C39_ConcurrentStopClosesOnce ==
    /\ Cardinality({t \in DOMAIN tpc : tpc[t] = "close"}) <= 1
    /\ \A t \in DOMAIN tpc : tpc[t] # "panic"

====
